---- MODULE Spec2Model ----
(***************************************************************************)
(* A model of the Dunes indexer.                                           *)
(*                                                                         *)
(*   - the per-transaction transition engine (processDunestone and the     *)
(*     functions it calls: processEtching, processMint, processEdicts,     *)
(*     finalizeTransfers), run against the block-scoped store;             *)
(*   - the block reader (blockManager: __fillCache and getBlock);          *)
(*   - the decoder (decipher and the schema of the dunestone);             *)
(*   - the HTTP routes of the router;                                      *)
(*   - the split of an amount into two signed columns;                     *)
(*   - the protocol rules called on their own: isMintOpen and              *)
(*     checkCommitment.                                                    *)
(*                                                                         *)
(* Each component has its own variables and its own specification; the     *)
(* variables of the other components stay as they start.                   *)
(*                                                                         *)
(* processDunestone is synchronous: its steps are modelled as a chain of   *)
(* actions (pc) that nothing can interleave with.  The fields of the       *)
(* transaction a step reads are drawn by the action that models the step.  *)
(*                                                                         *)
(* Representation.  A dune_protocol_id "b:t" is the pair <<b, t>>; the     *)
(* hash of the transaction at block b, index t is the same pair.  A Utxo   *)
(* is keyed by <<hash, vout>>.  Address rows are their ids: 1 COINBASE,    *)
(* 2 OP_RETURN, 3 UNKNOWN, the others are user addresses.  JavaScript      *)
(* objects used as dictionaries are functions with a finite domain; the    *)
(* 128-bit amounts are scaled to U128Bits bits.  bigint arithmetic is      *)
(* unbounded, and so are the integers here.                                *)
(***************************************************************************)
EXTENDS Integers, Sequences, FiniteSets, TLC

(* ------------------------------ bounds -------------------------------- *)

\* transactions processed in one behaviour (the genesis coinbase included)
MaxTx == 3
\* outputs of a transaction
MaxOut == 2
\* inputs of a transaction
MaxIn == 2
\* edicts of a dunestone
MaxEdicts == 1
\* width of an amount, standing for 128
U128Bits == 2
\* width of a u32, standing for 32: wide enough for the block heights
U32Bits == 24
\* transactions of a block after its coinbase
TxPerBlock == 2
\* the same, for the runs that follow a Utxo through several spends: of the
\* MaxTxSpend transactions, MaxStones carry a valid dunestone
MaxTxSpend == 4
MaxStones == 2
\* the block reader: blocks to read, and the largest MAX_BLOCK_CACHE_SIZE and
\* GET_BLOCK_CHUNK_SIZE tried
ReaderBlocks == 6
MaxCacheSize == 2
MaxChunkSize == 2
\* width of a half of an amount, standing for 64
HalfBits == 4
\* the decoder: members of a payload that differ from a well-formed one
MaxOddFields == 2
\* the mint window: heights and offsets up to MaxWindow past the creation
\* block
MaxWindow == 2
\* checkCommitment: inputs of the transaction and elements of a witness stack
MaxCommitIns == 2
MaxStack == 3
\* edicts of a dunestone that processEdicts takes in one call, and the
\* transactions of those runs (the genesis coinbase included)
MaxEdictList == 2
MaxTxEdicts == 2
\* transactions of a behaviour whose genesis coinbase carries a dunestone
MaxTxGenesis == 2
\* transactions of a behaviour whose cenotaphs keep their fields
MaxTxBurn == 2
\* transactions of a behaviour that keeps the inputs' witnesses
MaxTxEtch == 2
\* transactions of a behaviour that etches in every mint mode
MaxTxModes == 2
\* transactions of a behaviour that decodes what it processes
MaxTxChain == 3

(* -------------------------- program constants ------------------------- *)

MAX_U128 == 2^U128Bits - 1
GENESIS_BLOCK == 840000
GENESIS_MINT_END == 1050000
UNLOCK_INTERVAL == 17500
COMMIT_CONFIRMATIONS == 6
INITIAL_AVAILABLE == 13
Null == -1
NaN == -2
Infinity == -3
COINBASE == 1
OP_RETURN == 2
UNKNOWN == 3
BurnKey == 0
UserAddresses == {4, 5}
GenesisId == <<1, 0>>
GenesisName == "UNCOMMONGOODS"
Names == {"AAA", GenesisName}

(* ------------------------------ helpers ------------------------------- *)

EmptyMap == << >>

\* obj[k] ?? 0n
Get(f, k) == IF k \in DOMAIN f THEN f[k] ELSE 0

\* obj[k] = v
Put(f, k, v) == [x \in (DOMAIN f) \cup {k} |-> IF x = k THEN v ELSE f[x]]

Min(a, b) == IF a <= b THEN a ELSE b
Max(a, b) == IF a >= b THEN a ELSE b

\* sequences of at most n elements of S
SeqsUpTo(S, n) == UNION {[1..k -> S] : k \in 0..n}

\* the order of dune ids used wherever the code walks the keys of an object
IdLess(a, b) == a[1] < b[1] \/ (a[1] = b[1] /\ a[2] < b[2])
MinId(S) == CHOOSE a \in S : \A b \in S : a = b \/ IdLess(a, b)

RECURSIVE SetToSeq(_)
SetToSeq(S) == IF S = {} THEN << >>
               ELSE LET m == MinId(S) IN <<m>> \o SetToSeq(S \ {m})

RECURSIVE SumOver(_, _)
SumOver(f, S) == IF S = {} THEN 0
                 ELSE LET k == CHOOSE x \in S : TRUE
                      IN f[k] + SumOver(f, S \ {k})

\* the sum of the values of a dictionary
SumMap(f) == SumOver(f, DOMAIN f)

VARIABLES
    Address,          \* Address rows (ids)
    Transaction,      \* Transaction rows (hashes)
    Utxo,             \* Utxo rows, by <<hash, vout>>
    Utxo_balance,     \* Utxo_balance rows, by <<utxo key, dune id>>
    Dune,             \* Dune rows, by dune_protocol_id
    Balance,          \* Balance rows, by <<address id, dune id>>
    Event,            \* the Event log
    pc,               \* the step of processDunestone that runs next
    nTx,              \* transactions handed to processDunestone so far
    Tx,               \* the transaction being processed
    inputUtxos,       \* processDunestone's inputUtxos
    pendingUtxos,     \* processDunestone's pendingUtxos
    UnallocatedDunes, \* the unallocated bag U
    transfers,        \* the transfers map of the transaction
    edictIndex,       \* edicts of the dunestone applied so far
    hist,             \* what the transaction did, kept for the properties
    MAX_BLOCK_CACHE_SIZE, \* process.env.MAX_BLOCK_CACHE_SIZE
    GET_BLOCK_CHUNK_SIZE, \* process.env.GET_BLOCK_CHUNK_SIZE
    cachedBlocks,     \* blockManager's cache: height -> block data
    cacheFillProcessing, \* blockManager's flag
    fills,            \* the __fillCache calls awaiting their chunk
    requested,        \* the height the consumer asks for
    waiting,          \* the consumer: "idle", "polling" in getBlock, or "done"
    delivered,        \* what getBlock resolved with, in order
    rawTx,            \* the transaction handed to decipher
    dunestone,        \* what decipher returned for rawTx
    req,              \* the HTTP request in hand
    res,              \* the response sent for req
    handler,          \* the route handler: "idle", "running" or "returned"
    amountIn,         \* the argument of convertAmountToParts
    parts,            \* balance_0 and balance_1 as convertAmountToParts returns them
    joined,           \* what convertPartsToAmount returns for parts
    mintOpenArgs,     \* the arguments of a call of isMintOpen
    mintOpenRet,      \* what the call returned: "true" or "false"
    commitArgs,       \* the arguments of a call of checkCommitment
    commitRet         \* how the call ended: "true", "false" or "throws"

engineVars == <<Address, Transaction, Utxo, Utxo_balance, Dune, Balance, Event,
                pc, nTx, Tx, inputUtxos, pendingUtxos, UnallocatedDunes,
                transfers, edictIndex, hist>>

readerVars == <<MAX_BLOCK_CACHE_SIZE, GET_BLOCK_CHUNK_SIZE, cachedBlocks,
                cacheFillProcessing, fills, requested, waiting, delivered>>

decoderVars == <<rawTx, dunestone>>

httpVars == <<req, res, handler>>

utilsVars == <<amountIn, parts, joined>>

rulesVars == <<mintOpenArgs, mintOpenRet, commitArgs, commitRet>>

\* the state of the components an action of another component leaves alone
restOfEngine == <<readerVars, decoderVars, httpVars, utilsVars, rulesVars>>
restOfReader == <<engineVars, decoderVars, httpVars, utilsVars, rulesVars>>
restOfDecoder == <<engineVars, readerVars, httpVars, utilsVars, rulesVars>>
restOfHttp == <<engineVars, readerVars, decoderVars, utilsVars, rulesVars>>
restOfUtils == <<engineVars, readerVars, decoderVars, httpVars, rulesVars>>
restOfRules == <<engineVars, readerVars, decoderVars, httpVars, utilsVars>>

vars == <<engineVars, readerVars, decoderVars, httpVars, utilsVars, rulesVars>>

store == <<Address, Transaction, Utxo, Utxo_balance, Dune, Balance, Event>>

(* --------------------------- protocol rules --------------------------- *)

\* a > b and a < b of JavaScript numbers, false when one side is NaN
JsGreater(a, b) ==
    a # NaN /\ b # NaN /\ b # Infinity /\ (a = Infinity \/ a > b)
JsLess(a, b) == JsGreater(b, a)

\* if (mint_cap): null, undefined and 0n are falsy
CapProvided(D) == D.mint_cap # Null /\ D.mint_cap # 0

\* the cap test of isMintOpen
OverCap(D, mint_offset) ==
    LET total_mints == D.mints + (IF mint_offset THEN 1 ELSE 0)
    IN  CapProvided(D) /\ total_mints > D.mint_cap

\* isMintOpen(block, txIndex, Rune, mint_offset), Rune being the row D whose
\* dune_protocol_id is id
isMintOpen(block, txIndex, id, D, mint_offset) ==
    LET parsedBlock == id[1]
        creationTxIndex == id[2]
        creationBlock == IF id = GenesisId THEN GENESIS_BLOCK ELSE parsedBlock
        offset_start == (IF D.mint_offset_start = Null THEN 0
                         ELSE D.mint_offset_start) + creationBlock
        offset_end == (IF D.mint_offset_end = Null THEN 0
                       ELSE D.mint_offset_end) + creationBlock
        \* [mint_start, mint_offset_start].filter((e) => e !== creationBlock)
        keepStart == D.mint_start # creationBlock
        keepOffStart == offset_start # creationBlock
        keepEnd == D.mint_end # creationBlock
        keepOffEnd == offset_end # creationBlock
        \* parseInt(null) is NaN
        start == IF keepStart /\ keepOffStart
                 THEN Max(IF D.mint_start = Null THEN creationBlock
                          ELSE D.mint_start, offset_start)
                 ELSE IF keepStart
                 THEN (IF D.mint_start = Null THEN NaN ELSE D.mint_start)
                 ELSE IF keepOffStart THEN offset_start
                 ELSE creationBlock
        end == IF keepEnd /\ keepOffEnd
               THEN Min(IF D.mint_end = Null THEN offset_end ELSE D.mint_end,
                        offset_end)
               ELSE IF keepEnd
               THEN (IF D.mint_end = Null THEN NaN ELSE D.mint_end)
               ELSE IF keepOffEnd THEN offset_end
               ELSE Infinity
    IN  /\ ~D.unmintable
        /\ ~(block = parsedBlock /\ creationTxIndex = txIndex)
        /\ ~OverCap(D, mint_offset)
        /\ ~(JsGreater(start, block) \/ JsLess(end, block))

\* updateUnallocated(prevUnallocated, {dune_id, amount})
updateUnallocated(U, id, amount) == Put(U, id, Get(U, id) + amount)

\* the sats the outputs of the transaction pay to payTo
TotalRecv(vout, sats, payTo) ==
    LET paid == [i \in 1..Len(vout) |-> IF vout[i] = payTo THEN sats[i] ELSE 0]
    IN  SumOver(paid, 1..Len(vout))

\* isPriceTermsMet(dune, tx): with price terms, some output pays pay_to and
\* a fixed mint amount equals floor(paid / price_amount)
isPriceTermsMet(D, vout, sats) ==
    \/ D.price_amount = Null
    \/ D.price_pay_to = Null
    \/ /\ \E i \in 1..Len(vout) : vout[i] = D.price_pay_to
       /\ D.price_amount # 0
       /\ \/ D.mint_amount = Null
          \/ D.mint_amount = 0
          \/ D.mint_amount = TotalRecv(vout, sats, D.price_pay_to) \div D.price_amount

(* ------------------------------ etching ------------------------------- *)

\* minimumLengthAtHeight(block)
minimumLengthAtHeight(block) ==
    LET stepsPassed == (block - GENESIS_BLOCK) \div UNLOCK_INTERVAL
    IN  INITIAL_AVAILABLE - stepsPassed

NoTerms == [some |-> FALSE]
NoEtching == [some |-> FALSE]

\* the genesis etching: terms amount 1, cap 2^128 - 1, height window
GENESIS_DUNESTONE ==
    [some |-> TRUE, dune |-> GenesisName, premine |-> Null,
     terms |-> [some |-> TRUE, amount |-> 1, cap |-> MAX_U128,
                height |-> <<GENESIS_BLOCK, GENESIS_MINT_END>>,
                offset |-> <<Null, Null>>,
                price_amount |-> Null, price_pay_to |-> Null]]

\* etching?.terms?.amount ?? null, and the like
TermsField(etching, f) == IF etching.terms.some THEN etching.terms[f] ELSE Null

\* etching?.terms?.amount == 0n && etching?.terms?.price
EtchIsFlex(etching) ==
    TermsField(etching, "amount") = 0 /\ TermsField(etching, "price_amount") # Null

\* !!etching?.terms?.cap && etching?.terms?.cap !== 0n
EtchHasMintcap(etching) ==
    TermsField(etching, "cap") # Null /\ TermsField(etching, "cap") # 0

\* a variant of EtchRejected without the lookup of the name
EtchRejectedById(DuneT, etching, pos) ==
    \/ pos \in DOMAIN DuneT
    \/ (~EtchIsFlex(etching) /\ TermsField(etching, "amount") = 0)
    \/ (EtchIsFlex(etching) /\ EtchHasMintcap(etching))

\* the checks of processEtching that reject the etching
EtchRejected(DuneT, etching, pos) ==
    \/ pos \in DOMAIN DuneT
    \/ \E d \in DOMAIN DuneT : DuneT[d].name = etching.dune
    \/ (~EtchIsFlex(etching) /\ TermsField(etching, "amount") = 0)
    \/ (EtchIsFlex(etching) /\ EtchHasMintcap(etching))

\* the Dune row processEtching creates
EtchedDune(etching, cenotaph) ==
    [name |-> etching.dune,
     premine |-> IF etching.premine = Null THEN 0 ELSE etching.premine,
     mints |-> 0,
     mint_cap |-> TermsField(etching, "cap"),
     mint_amount |-> TermsField(etching, "amount"),
     mint_start |-> IF etching.terms.some THEN etching.terms.height[1] ELSE Null,
     mint_end |-> IF etching.terms.some THEN etching.terms.height[2] ELSE Null,
     mint_offset_start |-> IF etching.terms.some THEN etching.terms.offset[1] ELSE Null,
     mint_offset_end |-> IF etching.terms.some THEN etching.terms.offset[2] ELSE Null,
     price_amount |-> TermsField(etching, "price_amount"),
     price_pay_to |-> TermsField(etching, "price_pay_to"),
     unmintable |-> (cenotaph \/
                     ((TermsField(etching, "amount") \in {Null, 0})
                      /\ ~EtchIsFlex(etching))),
     burnt_amount |-> 0]

\* a variant of processEtching that emits the ETCH event before it tests the
\* etching
processEtchingEventFirst(DuneT, AddressT, EventT, U, T, etching, isGenesis) ==
    LET id == IF isGenesis THEN GenesisId ELSE <<T.block, T.txIndex>>
        row == EtchedDune(etching, T.cenotaph)
        event == [type |-> 0, block |-> T.block, transaction_id |-> T.hash,
                  dune_id |-> id, amount |-> row.premine,
                  from_address_id |-> T.sender, to_address_id |-> OP_RETURN]
    IN  IF ~etching.some
        THEN [Dune |-> DuneT, Address |-> AddressT, Event |-> EventT, U |-> U,
              etched |-> FALSE]
        ELSE IF EtchRejected(DuneT, etching, <<T.block, T.txIndex>>)
        THEN [Dune |-> DuneT, Address |-> AddressT,
              Event |-> Append(EventT, event), U |-> U, etched |-> FALSE]
        ELSE [Dune |-> Put(DuneT, id, row),
              Address |-> AddressT \cup {T.sender},
              Event |-> Append(EventT, event),
              U |-> IF T.cenotaph THEN U
                    ELSE updateUnallocated(U, id, row.premine),
              etched |-> TRUE]

\* processEtching(UnallocatedDunes, Transaction, rpc, storage, isGenesis):
\* the store's Dune, Address and Event tables and U afterwards
processEtching(DuneT, AddressT, EventT, U, T, etching, isGenesis) ==
    LET unchanged == [Dune |-> DuneT, Address |-> AddressT, Event |-> EventT,
                      U |-> U, etched |-> FALSE]
        id == IF isGenesis THEN GenesisId ELSE <<T.block, T.txIndex>>
        row == EtchedDune(etching, T.cenotaph)
        event == [type |-> 0, block |-> T.block, transaction_id |-> T.hash,
                  dune_id |-> id, amount |-> row.premine,
                  from_address_id |-> T.sender, to_address_id |-> OP_RETURN]
    IN  IF ~etching.some THEN unchanged
        ELSE IF EtchRejected(DuneT, etching, <<T.block, T.txIndex>>) THEN unchanged
        ELSE [Dune |-> Put(DuneT, id, row),
              Address |-> AddressT \cup {T.sender},
              Event |-> Append(EventT, event),
              U |-> IF T.cenotaph THEN U
                    ELSE updateUnallocated(U, id, row.premine),
              etched |-> TRUE]

(* -------------------------------- mint -------------------------------- *)

NoMint == << >>

\* a variant of MintAmount that rounds the units paid for upwards
MintAmountRoundedUp(D, vout, sats) ==
    IF D.price_amount # Null
    THEN (TotalRecv(vout, sats, D.price_pay_to) + D.price_amount - 1)
             \div D.price_amount
    ELSE IF D.mint_amount = Null THEN 0 ELSE D.mint_amount

\* the amount a mint of dune row D adds to U: mint_amount, or in flex mode
\* the sats paid to pay_to divided by the price
MintAmount(D, vout, sats) ==
    IF D.price_amount # Null
    THEN TotalRecv(vout, sats, D.price_pay_to) \div D.price_amount
    ELSE IF D.mint_amount = Null THEN 0 ELSE D.mint_amount

\* processMint throws: flex terms without pay_to or with a zero price
MintThrows(DuneT, T, mint, sats) ==
    /\ mint # NoMint
    /\ mint \in DOMAIN DuneT
    /\ isPriceTermsMet(DuneT[mint], T.vout, sats)
    /\ isMintOpen(T.block, T.txIndex, mint, DuneT[mint], TRUE)
    /\ ~T.cenotaph
    /\ DuneT[mint].price_amount # Null
    /\ (DuneT[mint].price_pay_to = Null \/ DuneT[mint].price_amount = 0)

\* the mint of processMint goes through
MintAccepted(DuneT, T, mint, sats) ==
    /\ mint # NoMint
    /\ mint \in DOMAIN DuneT
    /\ isPriceTermsMet(DuneT[mint], T.vout, sats)
    /\ isMintOpen(T.block, T.txIndex, mint, DuneT[mint], TRUE)
    /\ ~T.cenotaph
    /\ MintAmount(DuneT[mint], T.vout, sats) > 0

\* the return or the throw of processMint that is taken, in the order of the
\* code
MintCase(DuneT, T, mint, sats) ==
    IF mint = NoMint THEN "none"
    ELSE IF mint \notin DOMAIN DuneT THEN "unknown"
    ELSE IF ~isPriceTermsMet(DuneT[mint], T.vout, sats) THEN "price"
    ELSE IF ~isMintOpen(T.block, T.txIndex, mint, DuneT[mint], TRUE) THEN "closed"
    ELSE IF T.cenotaph THEN "cenotaph"
    ELSE IF MintThrows(DuneT, T, mint, sats) THEN "throws"
    ELSE IF MintAmount(DuneT[mint], T.vout, sats) <= 0 THEN "zero"
    ELSE "minted"

\* a variant of processMint that counts the mint before it tests the amount
processMintCountsFirst(DuneT, EventT, U, T, mint, sats) ==
    IF MintCase(DuneT, T, mint, sats) \in {"zero", "minted"}
    THEN [Dune |-> [DuneT EXCEPT ![mint].mints = @ + 1],
          Event |-> EventT,
          U |-> updateUnallocated(U, mint, MintAmount(DuneT[mint], T.vout, sats)),
          minted |-> MintAmount(DuneT[mint], T.vout, sats)]
    ELSE [Dune |-> DuneT, Event |-> EventT, U |-> U, minted |-> 0]

\* processMint(UnallocatedDunes, Transaction, storage), when it does not throw
processMint(DuneT, EventT, U, T, mint, sats) ==
    IF ~MintAccepted(DuneT, T, mint, sats)
    THEN [Dune |-> DuneT, Event |-> EventT, U |-> U, minted |-> 0]
    ELSE LET D == DuneT[mint]
             event == [type |-> 1, block |-> T.block, transaction_id |-> T.hash,
                       dune_id |-> mint, amount |-> D.mint_amount,
                       from_address_id |-> T.sender, to_address_id |-> OP_RETURN]
         IN  [Dune |-> [DuneT EXCEPT ![mint].mints = D.mints + 1],
              Event |-> Append(EventT, event),
              U |-> updateUnallocated(U, mint, MintAmount(D, T.vout, sats)),
              minted |-> MintAmount(D, T.vout, sats)]

(* ------------------------------- edicts ------------------------------- *)

\* a variant of allocate that gives the amount asked for, whatever is left
allocateUnclamped(s, i, id, amount) ==
    LET unallocated == Get(s.U, id)
        withDefault == IF amount = 0 THEN unallocated ELSE amount
        utxo == s.P[i]
        toAddress == IF utxo.address_id = OP_RETURN THEN BurnKey
                     ELSE utxo.address_id
        old == IF toAddress \in DOMAIN s.T THEN s.T[toAddress] ELSE EmptyMap
    IN  [U |-> Put(s.U, id, unallocated - withDefault),
         P |-> [s.P EXCEPT ![i].dune_balances =
                    Put(@, id, Get(@, id) + withDefault)],
         T |-> IF withDefault = 0 THEN s.T
               ELSE Put(s.T, toAddress, Put(old, id, Get(old, id) + withDefault))]

\* allocate(utxo, duneId, amount) of processEdicts, utxo being pendingUtxos[i]:
\* s holds U, the pending outputs P and the transfers map T
allocate(s, i, id, amount) ==
    LET unallocated == Get(s.U, id)
        withDefault == IF unallocated < amount \/ amount = 0
                       THEN unallocated ELSE amount
        utxo == s.P[i]
        toAddress == IF utxo.address_id = OP_RETURN THEN BurnKey
                     ELSE utxo.address_id
        old == IF toAddress \in DOMAIN s.T THEN s.T[toAddress] ELSE EmptyMap
    IN  [U |-> Put(s.U, id, unallocated - withDefault),
         P |-> [s.P EXCEPT ![i].dune_balances =
                    Put(@, id, Get(@, id) + withDefault)],
         T |-> IF withDefault = 0 THEN s.T
               ELSE Put(s.T, toAddress, Put(old, id, Get(old, id) + withDefault))]

\* outputs.forEach((utxo, index) => allocate(utxo, id, amounts[index])), the
\* outputs being the pending outputs at the indices idxs
RECURSIVE allocateEach(_, _, _, _, _)
allocateEach(s, idxs, id, amounts, k) ==
    IF k > Len(idxs) THEN s
    ELSE allocateEach(allocate(s, idxs[k], id, amounts[k]), idxs, id, amounts, k + 1)

\* pendingUtxos.filter((utxo) => utxo.address_id !== 2), as indices
RECURSIVE nonOpReturnFrom(_, _)
nonOpReturnFrom(P, i) ==
    IF i > Len(P) THEN << >>
    ELSE (IF P[i].address_id # OP_RETURN THEN <<i>> ELSE << >>)
         \o nonOpReturnFrom(P, i + 1)

nonOpReturnOutputs(P) == nonOpReturnFrom(P, 1)

\* edict.id === "0:0" ? transactionDuneId : edict.id
EdictId(T, edict) == IF edict.id = <<0, 0>> THEN <<T.block, T.txIndex>> ELSE edict.id

\* the edict is skipped: unknown dune, or dune not in U
EdictSkipped(DuneT, s, T, edict) ==
    \/ EdictId(T, edict) \notin DOMAIN DuneT
    \/ Get(s.U, EdictId(T, edict)) = 0

\* allocate(pendingUtxos[edict.output], ...) with no such output: a TypeError
EdictThrows(DuneT, s, T, edict) ==
    /\ ~EdictSkipped(DuneT, s, T, edict)
    /\ edict.output > Len(s.P)

\* a variant of applyEdict whose even split gives the extra units to the
\* last outputs
applyEdictExtraLast(DuneT, s, T, edict) ==
    LET id == EdictId(T, edict)
        nonOp == nonOpReturnOutputs(s.P)
        n == Len(nonOp)
        amount == Get(s.U, id) \div n
        remainder == Get(s.U, id) % n
    IN  IF EdictSkipped(DuneT, s, T, edict) THEN s
        ELSE IF edict.output = Len(s.P)
        THEN IF edict.amount = 0
             THEN IF n > 0
                  THEN allocateEach(s, nonOp, id,
                           [k \in 1..n |-> IF n - k < remainder
                                           THEN amount + 1 ELSE amount], 1)
                  ELSE s
             ELSE allocateEach(s, nonOp, id, [k \in 1..n |-> edict.amount], 1)
        ELSE allocate(s, edict.output + 1, id, edict.amount)

\* one iteration of the loop over the edicts
applyEdict(DuneT, s, T, edict) ==
    LET id == EdictId(T, edict)
        nonOp == nonOpReturnOutputs(s.P)
        n == Len(nonOp)
        amount == Get(s.U, id) \div n
        remainder == Get(s.U, id) % n
    IN  IF EdictSkipped(DuneT, s, T, edict) THEN s
        ELSE IF edict.output = Len(s.P)
        THEN IF edict.amount = 0
             THEN IF n > 0
                  THEN allocateEach(s, nonOp, id,
                           [k \in 1..n |-> IF k - 1 < remainder
                                           THEN amount + 1 ELSE amount], 1)
                  ELSE s
             ELSE allocateEach(s, nonOp, id, [k \in 1..n |-> edict.amount], 1)
        ELSE allocate(s, edict.output + 1, id, edict.amount)

NoPointer == Null

\* the index of the output the residual U goes to, 0 when there is none
pointerOutput(P, pointer) ==
    LET nonOp == nonOpReturnOutputs(P)
        first == IF Len(nonOp) > 0 THEN nonOp[1] ELSE 0
        chosen == IF pointer # NoPointer /\ pointer # 0
                  THEN (IF pointer < Len(P) THEN pointer + 1 ELSE first)
                  ELSE first
    IN  IF chosen # 0 THEN chosen
        ELSE IF \E i \in 1..Len(P) : P[i].address_id = OP_RETURN
        THEN CHOOSE i \in 1..Len(P) :
                 /\ P[i].address_id = OP_RETURN
                 /\ \A j \in 1..(i - 1) : P[j].address_id # OP_RETURN
        ELSE 0

\* a variant of sweep that stops after the first dune of U
sweepFirstOnly(s, i, ids) ==
    IF ids = << >> THEN s
    ELSE allocate(s, i, Head(ids), Get(s.U, Head(ids)))

\* Object.entries(UnallocatedDunes).forEach(allocate(pointerOutput, ...))
RECURSIVE sweep(_, _, _)
sweep(s, i, ids) ==
    IF ids = << >> THEN s
    ELSE sweep(allocate(s, i, Head(ids), Get(s.U, Head(ids))), i, Tail(ids))

\* the loop over the edicts, from the k-th edict on
RECURSIVE applyEdicts(_, _, _, _, _)
applyEdicts(DuneT, s, T, edicts, k) ==
    IF k > Len(edicts) THEN s
    ELSE applyEdicts(DuneT, applyEdict(DuneT, s, T, edicts[k]), T, edicts, k + 1)

\* the loop throws at the k-th edict or at a later one
RECURSIVE edictsThrow(_, _, _, _, _)
edictsThrow(DuneT, s, T, edicts, k) ==
    /\ k <= Len(edicts)
    /\ \/ EdictThrows(DuneT, s, T, edicts[k])
       \/ edictsThrow(DuneT, applyEdict(DuneT, s, T, edicts[k]), T, edicts, k + 1)

\* processEdicts(UnallocatedDunes, pendingUtxos, Transaction, transfers,
\* storage) on a dunestone that is no cenotaph, when it does not throw: the
\* edicts in sequence, then what is left in U to the pointer output
processEdicts(DuneT, s, T, edicts, pointer) ==
    LET t == applyEdicts(DuneT, s, T, edicts, 1)
    IN  sweep(t, pointerOutput(t.P, pointer), SetToSeq(DOMAIN t.U))

(* ---------------------------- finalization ---------------------------- *)

\* the events emitTransferAndBurnEvents creates for transfers[key]
RECURSIVE transferEvents(_, _, _, _)
transferEvents(T, key, m, ids) ==
    IF ids = << >> THEN << >>
    ELSE LET id == Head(ids)
             event == [type |-> IF key = BurnKey THEN 3 ELSE 2,
                       block |-> T.block, transaction_id |-> T.hash,
                       dune_id |-> id, amount |-> m[id],
                       from_address_id |-> T.sender,
                       to_address_id |-> IF key = BurnKey THEN OP_RETURN ELSE key]
         IN  (IF m[id] = 0 THEN << >> ELSE <<event>>)
             \o transferEvents(T, key, m, Tail(ids))

\* a variant of transferKeys with "burn" first
RECURSIVE transferKeysBurnFirst(_)
transferKeysBurnFirst(K) ==
    IF K = {} THEN << >>
    ELSE IF BurnKey \in K THEN <<BurnKey>> \o transferKeysBurnFirst(K \ {BurnKey})
    ELSE LET m == CHOOSE a \in K : \A b \in K : a <= b
         IN  <<m>> \o transferKeysBurnFirst(K \ {m})

\* Object.keys(transfers): the address ids in increasing order, then "burn"
RECURSIVE transferKeys(_)
transferKeys(K) ==
    IF K = {} THEN << >>
    ELSE IF K = {BurnKey} THEN <<BurnKey>>
    ELSE LET m == CHOOSE a \in K \ {BurnKey} :
                      \A b \in K \ {BurnKey} : a <= b
         IN  <<m>> \o transferKeys(K \ {m})

RECURSIVE eventsOfKeys(_, _, _)
eventsOfKeys(T, tr, keys) ==
    IF keys = << >> THEN << >>
    ELSE transferEvents(T, Head(keys), tr[Head(keys)],
                        SetToSeq(DOMAIN tr[Head(keys)]))
         \o eventsOfKeys(T, tr, Tail(keys))

\* emitTransferAndBurnEvents(transfers, Transaction, storage)
emitTransferAndBurnEvents(T, tr) == eventsOfKeys(T, tr, transferKeys(DOMAIN tr))

\* a variant of burnAllFromUtxo that stores the amount burnt last
burnAllFromUtxoLast(DuneT, dune_balances) ==
    [d \in DOMAIN DuneT |->
        IF d \in DOMAIN dune_balances
        THEN [DuneT[d] EXCEPT !.burnt_amount = dune_balances[d]]
        ELSE DuneT[d]]

\* burnAllFromUtxo(utxo, storage)
burnAllFromUtxo(DuneT, dune_balances) ==
    [d \in DOMAIN DuneT |->
        IF d \in DOMAIN dune_balances
        THEN [DuneT[d] EXCEPT !.burnt_amount = @ + dune_balances[d]]
        ELSE DuneT[d]]

\* inputUtxos.forEach((utxo) => burnAllFromUtxo(utxo, storage))
RECURSIVE burnInputs(_, _, _)
burnInputs(DuneT, ins, k) ==
    IF k > Len(ins) THEN DuneT
    ELSE burnInputs(burnAllFromUtxo(DuneT, ins[k].dune_balances), ins, k + 1)

\* pendingUtxos.find((utxo) => utxo.address_id === 2), 0 when there is none
opReturnOutput(P) ==
    IF \E i \in 1..Len(P) : P[i].address_id = OP_RETURN
    THEN CHOOSE i \in 1..Len(P) :
             /\ P[i].address_id = OP_RETURN
             /\ \A j \in 1..(i - 1) : P[j].address_id # OP_RETURN
    ELSE 0

\* a variant of burnStep that burns the OP_RETURN output whether or not the
\* transaction is a cenotaph
burnStepOutputOnly(DuneT, T, ins, P) ==
    IF opReturnOutput(P) # 0
    THEN burnAllFromUtxo(DuneT, P[opReturnOutput(P)].dune_balances)
    ELSE DuneT

\* the burns of finalizeTransfers
burnStep(DuneT, T, ins, P) ==
    IF T.cenotaph THEN burnInputs(DuneT, ins, 1)
    ELSE IF opReturnOutput(P) # 0
    THEN burnAllFromUtxo(DuneT, P[opReturnOutput(P)].dune_balances)
    ELSE DuneT

\* a variant of persisted that keeps the OP_RETURN outputs
persistedWithOpReturn(P) ==
    {i \in 1..Len(P) : SumMap(P[i].dune_balances) > 0}

\* the pending outputs finalizeTransfers persists, as indices
persisted(P) ==
    {i \in 1..Len(P) : /\ P[i].address_id # OP_RETURN
                       /\ SumMap(P[i].dune_balances) > 0}

\* the Utxo_balance rows created for pending output i: none for a 0 balance
newBalanceRows(DuneT, T, P, i) ==
    {d \in DOMAIN P[i].dune_balances :
        P[i].dune_balances[d] # 0 /\ d \in DOMAIN DuneT}

\* updateOrCreateBalancesWithUtxo(utxo, storage, direction)
updateOrCreateBalancesWithUtxo(B, address_id, dune_balances, direction) ==
    [k \in (DOMAIN B) \cup {<<address_id, d>> : d \in DOMAIN dune_balances} |->
        IF k[1] = address_id /\ k[2] \in DOMAIN dune_balances
        THEN Get(B, k) + dune_balances[k[2]] * direction
        ELSE B[k]]

\* allUtxos.map(([utxo, direction]) => updateOrCreateBalancesWithUtxo(...))
RECURSIVE updateBalances(_, _, _)
updateBalances(B, all, k) ==
    IF k > Len(all) THEN B
    ELSE updateBalances(
             updateOrCreateBalancesWithUtxo(B, all[k].address_id,
                                            all[k].dune_balances, all[k].direction),
             all, k + 1)

\* [...inputUtxos.map((utxo) => [utxo, -1]), ...pendingUtxos.map((utxo) => [utxo, 1])]
allUtxos(ins, P) ==
    [k \in 1..Len(ins) |-> [address_id |-> ins[k].address_id,
                            dune_balances |-> ins[k].dune_balances,
                            direction |-> 0 - 1]]
    \o LET kept == SelectSeq(P, LAMBDA u :
                       u.address_id # OP_RETURN /\ SumMap(u.dune_balances) > 0)
       IN  [k \in 1..Len(kept) |-> [address_id |-> kept[k].address_id,
                                    dune_balances |-> kept[k].dune_balances,
                                    direction |-> 1]]

(* ----------------------------- the decoder ----------------------------- *)

\* 0xffff_ffff, scaled to U32Bits bits
MAX_U32 == 2^U32Bits - 1
MAX_U8 == 255

\* An amount of the JSON payload is [type, val]: the string of the decimal
\* digits of val ("decimal", with a sign when val < 0), the empty string
\* ("empty"), a string BigInt rejects ("word"), or the JSON number val
\* ("number").
StringAmount(v) == [type |-> "decimal", val |-> v]

\* isValidU128(s): BigInt(s) does not throw and lies in [0, MAX_U128];
\* BigInt("") is 0n
isValidU128(a) ==
    \/ a.type = "empty"
    \/ a.type = "decimal" /\ 0 <= a.val /\ a.val <= MAX_U128

\* duneAmount: a string that isValidU128 accepts and that is not ""
duneAmount(a) ==
    a.type \in {"decimal", "empty", "word"} /\ isValidU128(a) /\ a.type # "empty"

\* u32() and u8()
u32(n) == 0 <= n /\ n <= MAX_U32
u8(n) == 0 <= n /\ n <= MAX_U8

\* EdictSchema; the id is a string "b:t" that matches the pattern
EdictSchema(e) == duneAmount(e.amount) /\ u8(e.output)

\* the transform of MintSchema throws for a block or tx beyond u32; the
\* exception is not a validation issue and leaves safeParse as an exception
MintTransformThrows(m) == ~u32(m[1]) \/ ~u32(m[2])

\* EtchingSchema, for an etching whose fields other than the premine are
\* well-formed
EtchingSchema(et) == duneAmount(et.premine)

\* DunestoneSchema.safeParse(candidate).success: a strict object
DunestoneSchema(c) ==
    /\ c.p \in {"dunes", "https://dunes.sh"}
    /\ ~c.extraKey
    /\ c.edicts.some => \A i \in 1..Len(c.edicts.list) : EdictSchema(c.edicts.list[i])
    /\ c.etching.some => EtchingSchema(c.etching)
    /\ c.pointer.some => u32(c.pointer.val)

\* tx.vout.find(nulldata or OP_RETURN), as an index, 0 when there is none
opOutput(vout) ==
    IF \E i \in 1..Len(vout) : vout[i].nulldata
    THEN CHOOSE i \in 1..Len(vout) :
             /\ vout[i].nulldata
             /\ \A j \in 1..(i - 1) : ~vout[j].nulldata
    ELSE 0

\* dune.edicts.some((e) => e.output > voutLen - 1)
badOutput(c, voutLen) ==
    \E i \in 1..Len(c.edicts.list) : c.edicts.list[i].output > voutLen - 1

\* dune.edicts.some: blk === 0 && idx !== 0
badZeroDune(c) ==
    \E i \in 1..Len(c.edicts.list) :
        c.edicts.list[i].id[1] = 0 /\ c.edicts.list[i].id[2] # 0

\* what decipher returns: keys are the keys of the object beside cenotaph
Returned(cenotaph, keys, edicts, etching, mint, pointer) ==
    [threw |-> FALSE, cenotaph |-> cenotaph, keys |-> keys, edicts |-> edicts,
     etching |-> etching, mint |-> mint, pointer |-> pointer]

\* a variant whose cenotaph keeps a mint of the genesis dune
OnlyCenotaphKeepsMint(cenotaph) ==
    IF cenotaph THEN Returned(TRUE, {"mint"}, << >>, NoEtching, GenesisId, NoPointer)
    ELSE Returned(FALSE, {}, << >>, NoEtching, NoMint, NoPointer)

\* return { cenotaph }: no other key
OnlyCenotaph(cenotaph) ==
    Returned(cenotaph, {}, << >>, NoEtching, NoMint, NoPointer)
Thrown == [OnlyCenotaph(FALSE) EXCEPT !.threw = TRUE]

\* toBig(dune): the amounts become bigints
toBigEdicts(list) ==
    [i \in 1..Len(list) |-> [id |-> list[i].id, amount |-> list[i].amount.val,
                             output |-> list[i].output]]
toBigEtching(et) ==
    [some |-> TRUE, dune |-> et.dune, premine |-> et.premine.val, terms |-> NoTerms]

\* the keys of the parsed object
parsedKeys(c) ==
    {"p"} \cup (IF c.edicts.some THEN {"edicts"} ELSE {})
          \cup (IF c.etching.some THEN {"etching"} ELSE {})
          \cup (IF c.mint.some THEN {"mint"} ELSE {})
          \cup (IF c.pointer.some THEN {"pointer"} ELSE {})

\* decipher(tx)
decipher(tx) ==
    LET op == opOutput(tx.vout)
        c == tx.vout[op].payload
    IN  IF op = 0 THEN OnlyCenotaph(FALSE)
        ELSE IF ~c.json THEN OnlyCenotaph(TRUE)
        ELSE IF c.mint.some /\ MintTransformThrows(c.mint.val) THEN Thrown
        ELSE IF ~DunestoneSchema(c) THEN OnlyCenotaph(TRUE)
        ELSE IF c.edicts.some /\ (badOutput(c, Len(tx.vout)) \/ badZeroDune(c))
        THEN OnlyCenotaph(TRUE)
        ELSE Returned(FALSE, parsedKeys(c),
                      IF c.edicts.some THEN toBigEdicts(c.edicts.list) ELSE << >>,
                      IF c.etching.some THEN toBigEtching(c.etching) ELSE NoEtching,
                      IF c.mint.some THEN c.mint.val ELSE NoMint,
                      IF c.pointer.some THEN c.pointer.val ELSE NoPointer)

\* no transaction received, nothing decoded
NoRawTx == [vout |-> << >>]
NotDecoded == [OnlyCenotaph(FALSE) EXCEPT !.keys = {"none"}]

DecoderInit == rawTx = NoRawTx /\ dunestone = NotDecoded

\* the payloads of an OP_RETURN output: bytes that are no JSON, or an object
\* with or without p, an unknown key, edicts, an etching, a mint, a pointer
NotJson ==
    [json |-> FALSE, p |-> "undefined", extraKey |-> FALSE,
     edicts |-> [some |-> FALSE, list |-> << >>],
     etching |-> [some |-> FALSE, dune |-> "", premine |-> StringAmount(0)],
     mint |-> [some |-> FALSE, val |-> NoMint],
     pointer |-> [some |-> FALSE, val |-> NoPointer]]
PayloadAmounts ==
    {StringAmount(0), StringAmount(1), StringAmount(MAX_U128 + 1),
     StringAmount(0 - 1), [type |-> "empty", val |-> 0],
     [type |-> "word", val |-> 0], [type |-> "number", val |-> 1]}
PayloadEdicts ==
    {[some |-> FALSE, list |-> << >>]} \cup
    {[some |-> TRUE, list |-> <<[id |-> i, amount |-> a, output |-> o]>>] :
        i \in {<<0, 0>>, <<0, 1>>, <<1, 0>>},
        a \in {StringAmount(0), StringAmount(1), StringAmount(MAX_U128 + 1),
               [type |-> "number", val |-> 1]},
        o \in (0..(MaxOut + 1)) \cup {MAX_U8 + 1}}
PayloadEtchings ==
    {[some |-> FALSE, dune |-> "", premine |-> StringAmount(0)]} \cup
    {[some |-> TRUE, dune |-> "AAA", premine |-> a] : a \in PayloadAmounts}
PayloadMints ==
    {[some |-> FALSE, val |-> NoMint]} \cup
    {[some |-> TRUE, val |-> m] : m \in {<<1, 0>>, <<MAX_U32 + 1, 0>>}}
PayloadPointers ==
    {[some |-> FALSE, val |-> NoPointer]} \cup
    {[some |-> TRUE, val |-> n] : n \in {0, 1, MAX_U32 + 1}}
\* an object that differs from a well-formed one in at most MaxOddFields of
\* its members
Plain ==
    [json |-> TRUE, p |-> "dunes", extraKey |-> FALSE,
     edicts |-> [some |-> FALSE, list |-> << >>],
     etching |-> [some |-> FALSE, dune |-> "", premine |-> StringAmount(0)],
     mint |-> [some |-> FALSE, val |-> NoMint],
     pointer |-> [some |-> FALSE, val |-> NoPointer]]
OddFields(c) ==
    Cardinality({f \in {"p", "extraKey", "edicts", "etching", "mint", "pointer"} :
                    c[f] # Plain[f]})
Payloads ==
    {NotJson} \cup
    {c \in [json : {TRUE}, p : {"dunes", "https://dunes.sh", "runes", "undefined"},
            extraKey : BOOLEAN, edicts : PayloadEdicts, etching : PayloadEtchings,
            mint : PayloadMints, pointer : PayloadPointers] :
        OddFields(c) <= MaxOddFields}

\* the transactions handed to decipher: outputs that pay an address, and
\* OP_RETURN outputs; a second OP_RETURN output carries another payload
AddressOutput == [nulldata |-> FALSE, payload |-> NotJson]
DataOutput(c) == [nulldata |-> TRUE, payload |-> c]
RawTxs ==
    {[vout |-> << >>], [vout |-> <<AddressOutput>>],
     [vout |-> <<AddressOutput, AddressOutput>>]} \cup
    UNION {{[vout |-> <<DataOutput(c)>>],
            [vout |-> <<DataOutput(c), AddressOutput>>],
            [vout |-> <<AddressOutput, DataOutput(c)>>],
            [vout |-> <<DataOutput(c), DataOutput(NotJson)>>],
            [vout |-> <<DataOutput(NotJson), DataOutput(c)>>]} : c \in Payloads}

\* a transaction of the block is handed over
ReceiveTx(tx) ==
    /\ rawTx = NoRawTx \/ dunestone # NotDecoded
    /\ rawTx' = tx
    /\ dunestone' = NotDecoded
    /\ UNCHANGED restOfDecoder

\* decipher(tx) returns or throws
Decipher ==
    /\ rawTx # NoRawTx
    /\ dunestone = NotDecoded
    /\ dunestone' = decipher(rawTx)
    /\ UNCHANGED <<rawTx, restOfDecoder>>

(* ---------------------------- the HTTP routes --------------------------- *)

\* the routes of the router
Routes == {"utxo", "utxo_protocol", "address", "address_protocol",
           "snapshot", "snapshot_protocol"}

\* A request is its route, what the validators return for its parameters
\* (validTransactionHash and validInt on the parts of utxo_index,
\* validBitcoinAddress, validInt on start_block and end_block,
\* validProtocolId), and what the query does: no row, rows, or a rejection.
Requests ==
    [route : Routes, hash : BOOLEAN, vout : BOOLEAN, address : BOOLEAN,
     start_block : BOOLEAN, end_block : BOOLEAN, rune_protocol_id : BOOLEAN,
     rows : {"none", "some", "rejects"}]

NoRequest == [route |-> "none"]
\* no res.send yet
NoResponse == [sent |-> 0, status |-> 0, body |-> ""]

HttpInit == req = NoRequest /\ res = NoResponse /\ handler = "idle"

\* res.status(code).send(body); res.send(body) has the status 200
send(code, body) == [sent |-> 1, status |-> code, body |-> body]

\* the try block after the validation: the query, then the answer, which for
\* no row is onEmpty; a rejection lands in the catch
query(r, onEmpty) ==
    IF r.rows = "rejects" THEN send(500, "{error: Internal server error}")
    ELSE IF r.rows = "none" THEN send(200, onEmpty)
    ELSE send(200, "parsed")

\* GET /utxo/:utxo_index
getUtxo(r) ==
    IF ~r.hash \/ ~r.vout THEN send(400, "{error: Invalid utxo index provided}")
    ELSE query(r, "{error: No UTXO found}")

\* GET /utxo/:utxo_index/:rune_protocol_id
getUtxoProtocol(r) ==
    IF ~r.hash \/ ~r.vout THEN send(400, "{error: Invalid utxo index provided}")
    ELSE IF ~r.rune_protocol_id THEN NoResponse
    ELSE query(r, "{error: No UTXO found}")

\* GET /address/:address
getAddress(r) ==
    IF ~r.address THEN send(400, "{error: Invalid address provided}")
    ELSE query(r, "{}")

\* GET /address/:address/:rune_protocol_id
getAddressProtocol(r) ==
    IF ~r.address THEN send(400, "{error: Invalid address provided}")
    ELSE IF ~r.rune_protocol_id
    THEN send(400, "{error: Invalid rune protocol id provided}")
    ELSE query(r, "{}")

\* GET /snapshot/:start_block/:end_block/address/:address
getSnapshot(r) ==
    IF ~r.address THEN send(400, "{error: Invalid address provided}")
    ELSE IF ~r.start_block THEN send(400, "{error: Invalid block provided}")
    ELSE IF ~r.end_block THEN send(400, "{error: Invalid block provided}")
    ELSE query(r, "{}")

\* GET /snapshot/:start_block/:end_block/address/:address/:rune_protocol_id
getSnapshotProtocol(r) ==
    IF ~r.address THEN send(400, "{error: Invalid address provided}")
    ELSE IF ~r.start_block THEN send(400, "{error: Invalid block provided}")
    ELSE IF ~r.end_block THEN send(400, "{error: Invalid block provided}")
    ELSE IF ~r.rune_protocol_id
    THEN send(400, "{error: Invalid rune protocol id provided}")
    ELSE query(r, "{}")

\* a request arrives
Request(r) ==
    /\ handler = "idle"
    /\ req' = r
    /\ res' = NoResponse
    /\ handler' = "running"
    /\ UNCHANGED restOfHttp

\* the handler of the route runs to its end
Handle(route, answer) ==
    /\ handler = "running"
    /\ req.route = route
    /\ res' = answer
    /\ handler' = "returned"
    /\ UNCHANGED <<req, restOfHttp>>

GetUtxo == Handle("utxo", getUtxo(req))
GetUtxoProtocol == Handle("utxo_protocol", getUtxoProtocol(req))
GetAddress == Handle("address", getAddress(req))
GetAddressProtocol == Handle("address_protocol", getAddressProtocol(req))
GetSnapshot == Handle("snapshot", getSnapshot(req))
GetSnapshotProtocol == Handle("snapshot_protocol", getSnapshotProtocol(req))

(* --------------------------- the 128-bit split ------------------------- *)

\* 0xffffffffffffffffn and 0x7fffffffffffffffn, scaled to HalfBits bits
MAX_64_UNSIGNED == 2^HalfBits - 1
MAX_64_SIGNED == 2^(HalfBits - 1) - 1

\* a & b and a | b of bigints that are not negative
RECURSIVE BitAnd(_, _)
BitAnd(a, b) ==
    IF a = 0 \/ b = 0 THEN 0
    ELSE (a % 2) * (b % 2) + 2 * BitAnd(a \div 2, b \div 2)
RECURSIVE BitOr(_, _)
BitOr(a, b) ==
    IF a = 0 THEN b
    ELSE IF b = 0 THEN a
    ELSE Max(a % 2, b % 2) + 2 * BitOr(a \div 2, b \div 2)

\* n.toString(): the sign and the decimal digits
RECURSIVE Digits(_)
Digits(n) == IF n < 10 THEN <<n>> ELSE Append(Digits(n \div 10), n % 10)
toString(n) == [negative |-> n < 0, digits |-> Digits(IF n < 0 THEN 0 - n ELSE n)]

\* BigInt(s) of such a string
RECURSIVE DigitsValue(_)
DigitsValue(d) ==
    IF d = << >> THEN 0
    ELSE 10 * DigitsValue(SubSeq(d, 1, Len(d) - 1)) + d[Len(d)]
BigInt(s) == IF s.negative THEN 0 - DigitsValue(s.digits) ELSE DigitsValue(s.digits)

\* convertAmountToParts(amount)
convertAmountToParts(a) ==
    LET lower64 == BitAnd(a, MAX_64_UNSIGNED)
        upper64 == BitAnd(a \div 2^HalfBits, MAX_64_UNSIGNED)
    IN  [balance_0 |-> toString(IF lower64 > MAX_64_SIGNED
                                THEN lower64 - (MAX_64_UNSIGNED + 1) ELSE lower64),
         balance_1 |-> toString(IF upper64 > MAX_64_SIGNED
                                THEN upper64 - (MAX_64_UNSIGNED + 1) ELSE upper64)]

\* a variant of convertPartsToAmount that takes balance_1 as it is
convertPartsToAmountSigned(balance_0, balance_1) ==
    LET b0 == IF BigInt(balance_0) < 0 THEN BigInt(balance_0) + MAX_64_UNSIGNED + 1
              ELSE BigInt(balance_0)
        b1 == IF BigInt(balance_1) < 0 THEN 0 - BigInt(balance_1)
              ELSE BigInt(balance_1)
    IN  BitOr(b1 * 2^HalfBits, b0)

\* convertPartsToAmount(balance_0, balance_1)
convertPartsToAmount(balance_0, balance_1) ==
    LET b0 == IF BigInt(balance_0) < 0 THEN BigInt(balance_0) + MAX_64_UNSIGNED + 1
              ELSE BigInt(balance_0)
        b1 == IF BigInt(balance_1) < 0 THEN BigInt(balance_1) + MAX_64_UNSIGNED + 1
              ELSE BigInt(balance_1)
    IN  BitOr(b1 * 2^HalfBits, b0)

NoParts == [balance_0 |-> toString(0), balance_1 |-> toString(0)]

UtilsInit == amountIn = Null /\ parts = NoParts /\ joined = Null

\* an amount is written: split into the two columns
WriteAmount(a) ==
    /\ amountIn = Null
    /\ amountIn' = a
    /\ parts' = convertAmountToParts(a)
    /\ UNCHANGED <<joined, restOfUtils>>

\* the columns are read back
ReadAmount ==
    /\ amountIn # Null
    /\ joined = Null
    /\ joined' = convertPartsToAmount(parts.balance_0, parts.balance_1)
    /\ UNCHANGED <<amountIn, parts, restOfUtils>>

(* -------------------- the protocol rules, called alone ------------------ *)

NoMintOpenArgs == [block |-> Null]
NoCommitArgs == [block |-> Null]

RulesInit ==
    /\ mintOpenArgs = NoMintOpenArgs
    /\ mintOpenRet = "none"
    /\ commitArgs = NoCommitArgs
    /\ commitRet = "none"

\* the block a dune counts its offsets from
CreationBlock(id) == IF id = GenesisId THEN GENESIS_BLOCK ELSE id[1]

\* the heights and offsets of the terms tried, around the creation block c
WindowHeights(c) == {Null} \cup ((c - 1)..(c + MaxWindow))
WindowOffsets == {Null} \cup (0..MaxWindow)

\* the Dune rows handed to isMintOpen: the fields it reads
MintOpenRunes(c) ==
    [mints : {0, 1}, mint_cap : {Null, 1}, unmintable : {FALSE},
     mint_start : WindowHeights(c), mint_end : WindowHeights(c),
     mint_offset_start : WindowOffsets, mint_offset_end : WindowOffsets]

\* the calls isMintOpen(block, txIndex, Rune, true) tried: a dune etched by
\* the first transaction of the block after GENESIS_BLOCK, or the genesis
\* dune, at the creation block and after it
MintOpenCalls ==
    UNION {[block : CreationBlock(id)..(CreationBlock(id) + MaxWindow + 1),
            txIndex : {1, 2}, id : {id},
            Rune : MintOpenRunes(CreationBlock(id))] :
               id \in {<<GENESIS_BLOCK + 1, 1>>, GenesisId}}

\* isMintOpen is called
CallMintOpen(args) ==
    /\ mintOpenArgs = NoMintOpenArgs
    /\ mintOpenArgs' = args
    /\ UNCHANGED <<mintOpenRet, commitArgs, commitRet, restOfRules>>

\* isMintOpen returns
ReturnMintOpen ==
    /\ mintOpenArgs # NoMintOpenArgs
    /\ mintOpenRet = "none"
    /\ mintOpenRet' =
          IF isMintOpen(mintOpenArgs.block, mintOpenArgs.txIndex,
                        mintOpenArgs.id, mintOpenArgs.Rune, TRUE)
          THEN "true" ELSE "false"
    /\ UNCHANGED <<mintOpenArgs, commitArgs, commitRet, restOfRules>>

\* the txinwitness of an input without witness data: the field is missing
NoWitness == <<"absent">>

\* an element of a witness stack: "script" decodes as a script that holds the
\* commitment, "annex" begins with TAPROOT_ANNEX_PREFIX, "data" is neither
WitnessElements == {"script", "annex", "data"}

\* the height of the transaction checked, and those of the transactions its
\* inputs spend: with COMMIT_CONFIRMATIONS confirmations, one fewer, and two
CommitBlock == GENESIS_BLOCK + COMMIT_CONFIRMATIONS
PrevHeights == {CommitBlock - COMMIT_CONFIRMATIONS + 1,
                CommitBlock - COMMIT_CONFIRMATIONS + 2, CommitBlock - 1}

\* what the node answers about the output an input spends: the RPC call that
\* fails, if any, the scriptPubKey type and the height of its block
PrevChoices ==
    {p \in [fails : {"none", "tx", "header"}, taproot : BOOLEAN,
            height : PrevHeights] :
        /\ p.fails = "tx" => (~p.taproot /\ p.height = CommitBlock - 1)
        /\ p.fails = "header" => (p.taproot /\ p.height = CommitBlock - 1)}

\* the inputs of Transaction.vin
CommitInputs ==
    {[coinbase |-> TRUE, txinwitness |-> NoWitness,
      prev |-> [fails |-> "none", taproot |-> FALSE, height |-> CommitBlock - 1]]}
    \cup [coinbase : {FALSE},
          txinwitness : {NoWitness} \cup SeqsUpTo(WitnessElements, MaxStack),
          prev : PrevChoices]

\* the calls checkCommitment(runeName, Transaction, block, callRpc) tried
CommitCalls ==
    [block : {CommitBlock}, vin : SeqsUpTo(CommitInputs, MaxCommitIns)]

\* the steps of the loop of checkCommitment on one input: "true" when it
\* returns true, "continue", or the error thrown
commitmentOfInput(input, block) ==
    LET stack == input.txinwitness
        len == Len(stack)
        offset == IF len >= 2 /\ stack[len] = "annex" THEN 3 ELSE 2
        confirmations == block - input.prev.height + 1
    IN  IF input.coinbase THEN "continue"
        ELSE IF stack = NoWitness THEN "TypeError"
        ELSE IF offset > len THEN "continue"
        ELSE IF ~\E i \in 1..len : stack[i] = "script" THEN "continue"
        ELSE IF input.prev.fails = "tx" THEN "RPC Error"
        ELSE IF ~input.prev.taproot THEN "continue"
        ELSE IF input.prev.fails = "header" THEN "RPC Error"
        ELSE IF confirmations >= COMMIT_CONFIRMATIONS THEN "true"
        ELSE "continue"

\* checkCommitment, from input k on
RECURSIVE checkCommitment(_, _, _)
checkCommitment(vin, block, k) ==
    IF k > Len(vin) THEN "false"
    ELSE IF commitmentOfInput(vin[k], block) = "continue"
    THEN checkCommitment(vin, block, k + 1)
    ELSE commitmentOfInput(vin[k], block)

\* checkCommitment is called
CallCommitment(args) ==
    /\ commitArgs = NoCommitArgs
    /\ commitArgs' = args
    /\ UNCHANGED <<mintOpenArgs, mintOpenRet, commitRet, restOfRules>>

\* checkCommitment returns or throws
ReturnCommitment ==
    /\ commitArgs # NoCommitArgs
    /\ commitRet = "none"
    /\ commitRet' = checkCommitment(commitArgs.vin, commitArgs.block, 1)
    /\ UNCHANGED <<mintOpenArgs, mintOpenRet, commitArgs, restOfRules>>

(* --------------------------- the transaction --------------------------- *)

\* sequences of at most n distinct elements of S
RECURSIVE InjSeqs(_, _)
InjSeqs(S, n) ==
    IF n = 0 THEN {<< >>}
    ELSE LET shorter == InjSeqs(S, n - 1)
         IN  shorter \cup
             UNION {{Append(q, x) : x \in S \ {q[j] : j \in 1..Len(q)}} :
                    q \in {t \in shorter : Len(t) = n - 1}}

\* the inputs drawn for a transaction
Premines == {0, MAX_U128}
SatValues == {3}
MintOffsets == {Null}
MintHeights == {Null}
PriceChoices == {[amount |-> Null, pay_to |-> Null]}
TermsChoices ==
    {NoTerms} \cup
    {[some |-> TRUE, amount |-> a, cap |-> c, height |-> <<h1, h2>>,
      offset |-> <<o1, o2>>, price_amount |-> p.amount, price_pay_to |-> p.pay_to] :
        a \in {0, 1}, c \in {0, 1}, h1 \in MintHeights, h2 \in MintHeights,
        o1 \in MintOffsets, o2 \in MintOffsets, p \in PriceChoices}
EtchingChoices ==
    {[some |-> TRUE, dune |-> n, premine |-> p, terms |-> t] :
        n \in Names, p \in Premines, t \in TermsChoices}

\* the block and index of the next transaction: the genesis coinbase first,
\* then blocks of TxPerBlock transactions that follow their coinbase
NextPositions ==
    IF nTx = 0 THEN {<<GENESIS_BLOCK, 0>>}
    ELSE IF Tx.txIndex < TxPerBlock THEN {<<Tx.block, Tx.txIndex + 1>>}
    ELSE {<<Tx.block + 1, 1>>}

\* what is recorded of the transaction in hand (u0: U as gathered from the
\* inputs; burnt0: burnt_amount of each dune before the transaction), and of
\* the run (respent: an input was gathered whose block_spent was set; created:
\* the create("Dune") calls, in order; nameTaken: the transaction's etching
\* names a dune that exists; rejected: processEtching rejected the etching;
\* mintCase: the return or throw of processMint that was taken; edicts: the
\* edicts processEdicts took in one call)
NoHist == [u0 |-> EmptyMap, burnt0 |-> EmptyMap, premined |-> 0, minted |-> 0,
           mint |-> NoMint, skipped |-> FALSE, done |-> FALSE, swept |-> FALSE,
           nameTaken |-> FALSE, rejected |-> FALSE, mintCase |-> "none",
           respent |-> FALSE, created |-> << >>, stones |-> 0,
           edicts |-> << >>]
NewHist == [NoHist EXCEPT !.respent = hist.respent, !.created = hist.created,
                          !.stones = hist.stones]

\* the block reader as blockManager(callRpc, latestBlock) returns it, before
\* the first getBlock
ReaderInit(max, chunk) ==
    /\ MAX_BLOCK_CACHE_SIZE = max
    /\ GET_BLOCK_CHUNK_SIZE = chunk
    /\ cachedBlocks = EmptyMap
    /\ cacheFillProcessing = FALSE
    /\ fills = << >>
    /\ requested = GENESIS_BLOCK
    /\ waiting = "idle"
    /\ delivered = << >>

\* the store with the three reserved Address rows
EngineInit ==
    /\ Address = {COINBASE, OP_RETURN, UNKNOWN}
    /\ Transaction = {}
    /\ Utxo = EmptyMap
    /\ Utxo_balance = EmptyMap
    /\ Dune = EmptyMap
    /\ Balance = EmptyMap
    /\ Event = << >>
    /\ pc = "idle"
    /\ nTx = 0
    /\ Tx = [block |-> GENESIS_BLOCK, txIndex |-> 0 - 1, hash |-> <<0, 0>>,
             cenotaph |-> FALSE, hasFields |-> FALSE, coinbase |-> FALSE,
             vout |-> << >>, sender |-> UNKNOWN]
    /\ inputUtxos = << >>
    /\ pendingUtxos = << >>
    /\ UnallocatedDunes = EmptyMap
    /\ transfers = EmptyMap
    /\ edictIndex = 0
    /\ hist = NoHist

\* the components that a specification does not run stay as they start
Init ==
    /\ EngineInit
    /\ ReaderInit(1, 1)
    /\ DecoderInit
    /\ HttpInit
    /\ UtilsInit
    /\ RulesInit

\* the dune_balances of the Utxo with key k, from its Utxo_balance rows
balancesOf(k) ==
    [d \in {d \in DOMAIN Dune : <<k, d>> \in DOMAIN Utxo_balance} |->
        Utxo_balance[<<k, d>>]]

\* the Utxo rows the inputs resolve to: a vin whose Utxo is not indexed is
\* dropped
gatherInputs(vin) ==
    LET found == SelectSeq(vin, LAMBDA k : k \in DOMAIN Utxo)
    IN  [i \in 1..Len(found) |->
            [utxo_index |-> found[i],
             address_id |-> Utxo[found[i]].address_id,
             dune_balances |-> balancesOf(found[i])]]

\* getUnallocatedDunesFromUtxos(inputUtxos)
RECURSIVE getUnallocatedDunesFromUtxos(_, _)
getUnallocatedDunesFromUtxos(ins, k) ==
    IF k = 0 THEN EmptyMap
    ELSE LET acc == getUnallocatedDunesFromUtxos(ins, k - 1)
             bal == ins[k].dune_balances
         IN  [d \in (DOMAIN acc) \cup (DOMAIN bal) |-> Get(acc, d) + Get(bal, d)]

\* createNewUtxoBodies(vout, Transaction, storage)
createNewUtxoBodies(vout) ==
    [i \in 1..Len(vout) |->
        [address_id |-> vout[i], vout_index |-> i - 1, dune_balances |-> EmptyMap]]

\* a variant of loopRuns for a loop that catches what processDunestone throws
\* and goes on
loopCatches == pc \in {"idle", "aborted"}

\* the loop of processBlock takes its next transaction: processDunestone has
\* returned for the one before; what it throws is thrown again and leaves the
\* loop
loopRuns == pc = "idle"

\* processDunestone up to the call of processEtching: the inputs are gathered;
\* a transaction with no indexed input and no dunestone field is skipped; else
\* the Transaction row and the pending outputs are created, and the genesis
\* dune on the coinbase of GENESIS_BLOCK
beginTx(pos, vin, vout, cenotaph, hasFields) ==
    /\ loopRuns
    /\ pos \in NextPositions
    /\ LET ins == gatherInputs(vin)
           coinbase == pos[2] = 0
           T == [block |-> pos[1], txIndex |-> pos[2], hash |-> pos,
                 cenotaph |-> cenotaph, hasFields |-> hasFields,
                 coinbase |-> coinbase, vout |-> vout,
                 sender |-> IF Len(ins) > 0 THEN ins[1].address_id ELSE UNKNOWN]
           genesis == coinbase /\ pos[1] = GENESIS_BLOCK
           g == IF genesis
                THEN processEtching(Dune, Address, Event, EmptyMap,
                         [T EXCEPT !.cenotaph = FALSE], GENESIS_DUNESTONE, TRUE)
                ELSE [Dune |-> Dune, Address |-> Address, Event |-> Event]
       IN  /\ nTx' = nTx + 1
           /\ IF Len(ins) = 0 /\ ~hasFields /\ ~genesis
              THEN /\ Tx' = [T EXCEPT !.vout = << >>, !.cenotaph = FALSE]
                   /\ hist' = [NewHist EXCEPT !.skipped = TRUE]
                   /\ inputUtxos' = << >>
                   /\ pendingUtxos' = << >>
                   /\ UnallocatedDunes' = EmptyMap
                   /\ transfers' = EmptyMap
                   /\ UNCHANGED <<store, pc, edictIndex>>
              ELSE /\ Tx' = T
                   /\ Transaction' = Transaction \cup {pos}
                   /\ Dune' = g.Dune
                   /\ Event' = g.Event
                   /\ Address' = g.Address \cup {vout[i] : i \in 1..Len(vout)}
                   /\ inputUtxos' = ins
                   /\ pendingUtxos' = createNewUtxoBodies(vout)
                   /\ UnallocatedDunes' = getUnallocatedDunesFromUtxos(ins, Len(ins))
                   /\ transfers' = EmptyMap
                   /\ edictIndex' = 0
                   /\ hist' = [NewHist EXCEPT
                          !.u0 = getUnallocatedDunesFromUtxos(ins, Len(ins)),
                          !.burnt0 = [d \in DOMAIN g.Dune |-> g.Dune[d].burnt_amount],
                          !.respent = @ \/ \E i \in 1..Len(ins) :
                                          Utxo[ins[i].utxo_index].block_spent # Null,
                          !.created = IF genesis
                                      THEN Append(@, [id |-> GenesisId,
                                                      name |-> GenesisName])
                                      ELSE @,
                          !.stones = IF hasFields THEN @ + 1 ELSE @]
                   /\ pc' = "etch"
                   /\ UNCHANGED <<Utxo, Utxo_balance, Balance>>

\* the same, nothing being kept of the inputs as the node gave them
BeginTx(pos, vin, vout, cenotaph, hasFields) ==
    /\ beginTx(pos, vin, vout, cenotaph, hasFields)
    /\ UNCHANGED restOfEngine

\* the same, Transaction.vin being kept as the node gave it: what
\* checkCommitment would be called with
BeginTxWithVin(pos, vin, vout, cenotaph, hasFields, rawVin) ==
    /\ beginTx(pos, vin, vout, cenotaph, hasFields)
    /\ commitArgs' = [block |-> pos[1], vin |-> rawVin]
    /\ UNCHANGED <<readerVars, decoderVars, httpVars, utilsVars, mintOpenArgs,
                   mintOpenRet, commitRet>>

\* the outputs of a transaction as the engine sees them: an OP_RETURN output,
\* or the address the output pays
engineVout(tx) ==
    [i \in 1..Len(tx.vout) |-> IF tx.vout[i].nulldata THEN OP_RETURN ELSE 3 + i]

\* a variant that takes every dunestone for one with fields
BeginTxOfNeverSkips(pos, vin, tx) ==
    /\ ~decipher(tx).threw
    /\ beginTx(pos, vin, engineVout(tx), decipher(tx).cenotaph, TRUE)
    /\ rawTx' = tx
    /\ dunestone' = decipher(tx)
    /\ UNCHANGED <<readerVars, httpVars, utilsVars, rulesVars>>

\* the same, on a transaction as the block gives it: its dunestone is what
\* decipher returns, kept for the steps that follow
BeginTxOf(pos, vin, tx) ==
    /\ ~decipher(tx).threw
    /\ beginTx(pos, vin, engineVout(tx), decipher(tx).cenotaph,
               decipher(tx).keys # {})
    /\ rawTx' = tx
    /\ dunestone' = decipher(tx)
    /\ UNCHANGED <<readerVars, httpVars, utilsVars, rulesVars>>

\* processEtching on the transaction's own dunestone
Etch(etching) ==
    /\ pc = "etch"
    /\ UNCHANGED restOfEngine
    /\ etching.some => Tx.hasFields
    /\ LET r == processEtching(Dune, Address, Event, UnallocatedDunes, Tx,
                               etching, FALSE)
       IN  /\ Dune' = r.Dune
           /\ Address' = r.Address
           /\ Event' = r.Event
           /\ UnallocatedDunes' = r.U
           /\ hist' = [hist EXCEPT
                          !.premined = IF r.etched /\ ~Tx.cenotaph
                                       THEN r.Dune[Tx.hash].premine ELSE 0,
                          !.nameTaken = etching.some /\ \E d \in DOMAIN Dune :
                                            Dune[d].name = etching.dune,
                          !.rejected = etching.some
                                       /\ EtchRejected(Dune, etching, Tx.hash),
                          !.created = IF r.etched
                                      THEN Append(@, [id |-> Tx.hash,
                                                      name |-> etching.dune])
                                      ELSE @]
    /\ pc' = "mint"
    /\ UNCHANGED <<Transaction, Utxo, Utxo_balance, Balance, nTx, Tx, inputUtxos,
                   pendingUtxos, transfers, edictIndex>>

\* processMint; sats are the values of the outputs
Mint(mint, sats) ==
    /\ pc = "mint"
    /\ UNCHANGED restOfEngine
    /\ mint # NoMint => Tx.hasFields
    /\ IF MintThrows(Dune, Tx, mint, sats)
       THEN /\ pc' = "aborted"
            /\ hist' = [hist EXCEPT !.mint = mint, !.mintCase = "throws"]
            /\ UNCHANGED <<Dune, Event, UnallocatedDunes>>
       ELSE LET r == processMint(Dune, Event, UnallocatedDunes, Tx, mint, sats)
            IN  /\ Dune' = r.Dune
                /\ Event' = r.Event
                /\ UnallocatedDunes' = r.U
                /\ hist' = [hist EXCEPT !.minted = r.minted, !.mint = mint,
                                        !.mintCase = MintCase(Dune, Tx, mint, sats)]
                /\ pc' = "edicts"
    /\ UNCHANGED <<Address, Transaction, Utxo, Utxo_balance, Balance, nTx, Tx,
                   inputUtxos, pendingUtxos, transfers, edictIndex>>

\* the edicts a dunestone may carry
EdictAmounts == {0, 1, MAX_U128}
EdictChoices ==
    [id : (DOMAIN Dune) \cup {<<0, 0>>}, amount : EdictAmounts,
     output : 0..(Len(pendingUtxos) + 1)]
PointerChoices == {NoPointer} \cup (0..MaxOut)

\* U, the pending outputs and the transfers map, as processEdicts holds them
edictState == [U |-> UnallocatedDunes, P |-> pendingUtxos, T |-> transfers]

\* processEdicts on a cenotaph: everything in U is recorded as burnt
EdictsCenotaph ==
    /\ pc = "edicts"
    /\ UNCHANGED restOfEngine
    /\ Tx.cenotaph
    /\ transfers' = Put(transfers, BurnKey, UnallocatedDunes)
    /\ pc' = "finalize"
    /\ UNCHANGED <<store, nTx, Tx, inputUtxos, pendingUtxos, UnallocatedDunes,
                   edictIndex, hist>>

\* one iteration of the loop of processEdicts over dunestone.edicts
ApplyEdict(edict) ==
    /\ pc = "edicts"
    /\ UNCHANGED restOfEngine
    /\ ~Tx.cenotaph
    /\ Tx.hasFields
    /\ edictIndex < MaxEdicts
    /\ IF EdictThrows(Dune, edictState, Tx, edict)
       THEN /\ pc' = "aborted"
            /\ UNCHANGED <<UnallocatedDunes, pendingUtxos, transfers, edictIndex>>
       ELSE LET s == applyEdict(Dune, edictState, Tx, edict)
            IN  /\ UnallocatedDunes' = s.U
                /\ pendingUtxos' = s.P
                /\ transfers' = s.T
                /\ edictIndex' = edictIndex + 1
                /\ pc' = pc
    /\ UNCHANGED <<store, nTx, Tx, inputUtxos, hist>>

\* the end of processEdicts: what is left in U goes to the pointer output;
\* without any output the transaction is invalid and processing throws
PointerSweep(pointer) ==
    /\ pc = "edicts"
    /\ UNCHANGED restOfEngine
    /\ ~Tx.cenotaph
    /\ pointer # NoPointer => Tx.hasFields
    /\ LET out == pointerOutput(pendingUtxos, pointer)
       IN  IF out = 0
           THEN /\ pc' = "aborted"
                /\ UNCHANGED <<UnallocatedDunes, pendingUtxos, transfers, hist>>
           ELSE LET s == sweep(edictState, out, SetToSeq(DOMAIN UnallocatedDunes))
                IN  /\ UnallocatedDunes' = s.U
                    /\ pendingUtxos' = s.P
                    /\ transfers' = s.T
                    /\ hist' = [hist EXCEPT !.swept = TRUE]
                    /\ pc' = "finalize"
    /\ UNCHANGED <<store, nTx, Tx, inputUtxos, edictIndex>>

\* processEdicts in one step on a dunestone that is no cenotaph
ProcessEdicts(edicts, pointer) ==
    /\ pc = "edicts"
    /\ UNCHANGED restOfEngine
    /\ ~Tx.cenotaph
    /\ edictIndex = 0
    /\ (edicts # << >> \/ pointer # NoPointer) => Tx.hasFields
    /\ IF \/ edictsThrow(Dune, edictState, Tx, edicts, 1)
          \/ pointerOutput(pendingUtxos, pointer) = 0
       THEN /\ pc' = "aborted"
            /\ UNCHANGED <<UnallocatedDunes, pendingUtxos, transfers, edictIndex,
                           hist>>
       ELSE LET s == processEdicts(Dune, edictState, Tx, edicts, pointer)
            IN  /\ UnallocatedDunes' = s.U
                /\ pendingUtxos' = s.P
                /\ transfers' = s.T
                /\ edictIndex' = Len(edicts)
                /\ hist' = [hist EXCEPT !.swept = TRUE, !.edicts = edicts]
                /\ pc' = "finalize"
    /\ UNCHANGED <<store, nTx, Tx, inputUtxos>>

\* finalizeTransfers(inputUtxos, pendingUtxos, Transaction, transfers, storage)
Finalize ==
    /\ pc = "finalize"
    /\ UNCHANGED restOfEngine
    /\ LET keep == persisted(pendingUtxos)
           spent == {inputUtxos[k].utxo_index : k \in 1..Len(inputUtxos)}
           new == {<<Tx.hash, pendingUtxos[i].vout_index>> : i \in keep}
           rows == {<<i, d>> \in keep \X (DOMAIN Dune) :
                       d \in newBalanceRows(Dune, Tx, pendingUtxos, i)}
       IN  /\ Event' = Event \o emitTransferAndBurnEvents(Tx, transfers)
           /\ Dune' = burnStep(Dune, Tx, inputUtxos, pendingUtxos)
           /\ Utxo' = [k \in (DOMAIN Utxo) \cup new |->
                         IF k \in spent
                         THEN [Utxo[k] EXCEPT !.block_spent = Tx.block,
                                              !.transaction_spent_id = Tx.hash]
                         ELSE IF k \in DOMAIN Utxo THEN Utxo[k]
                         ELSE [address_id |-> pendingUtxos[k[2] + 1].address_id,
                               block |-> Tx.block, block_spent |-> Null,
                               transaction_spent_id |-> Null]]
           /\ Utxo_balance' =
                 [k \in (DOMAIN Utxo_balance) \cup
                        {<<<<Tx.hash, pendingUtxos[r[1]].vout_index>>, r[2]>> : r \in rows} |->
                     IF k \in DOMAIN Utxo_balance THEN Utxo_balance[k]
                     ELSE pendingUtxos[k[1][2] + 1].dune_balances[k[2]]]
           /\ Balance' = updateBalances(Balance, allUtxos(inputUtxos, pendingUtxos), 1)
    /\ hist' = [hist EXCEPT !.done = TRUE]
    /\ pc' = "idle"
    /\ UNCHANGED <<Address, Transaction, nTx, Tx, inputUtxos, pendingUtxos,
                   UnallocatedDunes, transfers, edictIndex>>

\* the transactions handed to processDunestone: the output layouts have their
\* OP_RETURN outputs first, then the user addresses in increasing order
VoutChoices ==
    {v \in SeqsUpTo({OP_RETURN} \cup UserAddresses, MaxOut) :
        /\ \A i \in 1..(Len(v) - 1) : v[i] < v[i + 1] \/ v[i + 1] = OP_RETURN
        /\ \A i \in 1..Len(v) : v[i] = 5 => i > 1 /\ v[i - 1] = 4}
VinChoices == InjSeqs(DOMAIN Utxo, MaxIn)

\* the dunestone is absent (no field), valid (fields) or a cenotaph, which
\* decipher returns without any field; the genesis coinbase pays one output
\* and carries no dunestone
TxChoices ==
    {t \in [vin : VinChoices, vout : VoutChoices, cenotaph : BOOLEAN,
            hasFields : BOOLEAN] :
        /\ nTx < MaxTx
        /\ t.cenotaph => ~t.hasFields
        /\ nTx = 0 => (~t.cenotaph /\ ~t.hasFields /\ t.vout = <<4>>)}

\* the same, with at most MaxStones valid dunestones and every transaction
\* paying a user address
TxChoicesSpend ==
    {t \in [vin : VinChoices, vout : {<<4>>, <<OP_RETURN, 4>>},
            cenotaph : BOOLEAN, hasFields : BOOLEAN] :
        /\ nTx < MaxTxSpend
        /\ t.hasFields => hist.stones < MaxStones
        /\ t.cenotaph => ~t.hasFields
        /\ nTx = 0 => (~t.cenotaph /\ ~t.hasFields /\ t.vout = <<4>>)}

\* the steps of processDunestone after the inputs are gathered, for the
\* etchings and the output values given
StepWith(etchings, values) ==
    \/ \E etching \in {NoEtching} \cup etchings : Etch(etching)
    \/ \E mint \in {NoMint} \cup (DOMAIN Dune) \cup {<<0, 1>>},
          sats \in [1..Len(Tx.vout) -> values] : Mint(mint, sats)
    \/ EdictsCenotaph
    \/ \E edict \in EdictChoices : ApplyEdict(edict)
    \/ \E pointer \in PointerChoices : PointerSweep(pointer)
    \/ Finalize

Step == StepWith(EtchingChoices, SatValues)

Next ==
    \/ \E pos \in NextPositions, t \in TxChoices :
          BeginTx(pos, t.vin, t.vout, t.cenotaph, t.hasFields)
    \/ Step

Spec == Init /\ [][Next]_vars

NextSpend ==
    \/ \E pos \in NextPositions, t \in TxChoicesSpend :
          BeginTx(pos, t.vin, t.vout, t.cenotaph, t.hasFields)
    \/ Step

SpecSpend == Init /\ [][NextSpend]_vars

\* Mints against price terms: the etchings are of one name without premine,
\* with a fixed amount, a price, both or none; the price is PriceSats to
\* address 4, and an output is worth less or more than the price
PriceSats == 2
PricedTerms ==
    {[some |-> TRUE, amount |-> a, cap |-> Null, height |-> <<Null, Null>>,
      offset |-> <<Null, Null>>, price_amount |-> p.amount,
      price_pay_to |-> p.pay_to] :
        a \in {0, 1},
        p \in {[amount |-> Null, pay_to |-> Null], [amount |-> PriceSats, pay_to |-> 4]}}
PricedEtchings ==
    {[some |-> TRUE, dune |-> "AAA", premine |-> 0, terms |-> t] : t \in PricedTerms}
PricedSatValues == {PriceSats - 1, PriceSats + 1}
TxChoicesMint ==
    {t \in [vin : VinChoices, vout : {<<4>>, <<5>>, <<OP_RETURN, 4>>},
            cenotaph : BOOLEAN, hasFields : BOOLEAN] :
        /\ nTx < MaxTx
        /\ t.cenotaph => ~t.hasFields
        /\ nTx = 0 => (~t.cenotaph /\ ~t.hasFields /\ t.vout = <<4>>)}

NextMint ==
    \/ \E pos \in NextPositions, t \in TxChoicesMint :
          BeginTx(pos, t.vin, t.vout, t.cenotaph, t.hasFields)
    \/ StepWith(PricedEtchings, PricedSatValues)

SpecMint == Init /\ [][NextMint]_vars

\* The coinbase of GENESIS_BLOCK with a dunestone of its own: handleGenesis
\* etches the genesis dune, then the dunestone of the coinbase is processed as
\* that of any transaction
TxChoicesGenesis ==
    {t \in [vin : VinChoices, vout : VoutChoices, cenotaph : BOOLEAN,
            hasFields : BOOLEAN] :
        /\ nTx < MaxTxGenesis
        /\ t.cenotaph => ~t.hasFields
        /\ nTx = 0 => (~t.cenotaph /\ t.vout = <<4>>)}

NextGenesis ==
    \/ \E pos \in NextPositions, t \in TxChoicesGenesis :
          BeginTx(pos, t.vin, t.vout, t.cenotaph, t.hasFields)
    \/ Step

SpecGenesis == Init /\ [][NextGenesis]_vars

\* Cenotaphs that keep their fields, as processMint and processEtching provide
\* for (decipher of dunestone.ts returns a cenotaph without any)
TxChoicesBurn ==
    {t \in [vin : VinChoices, vout : VoutChoices, cenotaph : BOOLEAN,
            hasFields : BOOLEAN] :
        /\ nTx < MaxTxBurn
        /\ nTx = 0 => (~t.cenotaph /\ ~t.hasFields /\ t.vout = <<4>>)}

NextBurn ==
    \/ \E pos \in NextPositions, t \in TxChoicesBurn :
          BeginTx(pos, t.vin, t.vout, t.cenotaph, t.hasFields)
    \/ Step

SpecBurn == Init /\ [][NextBurn]_vars

\* Etchings with and without a commitment, by transactions that are no
\* cenotaphs: the transaction's only input is a coinbase, or reveals the
\* commitment in a tapscript, or reveals nothing; the
\* output it spends is a taproot output with COMMIT_CONFIRMATIONS
\* confirmations
RawVins(pos) ==
    IF pos[2] = 0
    THEN {<<[coinbase |-> TRUE, txinwitness |-> NoWitness,
             prev |-> [fails |-> "none", taproot |-> FALSE, height |-> pos[1] - 1]]>>}
    ELSE {<<[coinbase |-> FALSE, txinwitness |-> w,
             prev |-> [fails |-> "none", taproot |-> TRUE,
                       height |-> pos[1] - COMMIT_CONFIRMATIONS + 1]]>> :
                w \in {<<"data", "script", "data">>, <<"data", "data">>}}

TxChoicesEtch ==
    {t \in [vin : VinChoices, vout : VoutChoices, cenotaph : {FALSE},
            hasFields : BOOLEAN] :
        /\ nTx < MaxTxEtch
        /\ nTx = 0 => (~t.hasFields /\ t.vout = <<4>>)}

NextEtch ==
    \/ \E pos \in NextPositions, t \in TxChoicesEtch :
          \E rawVin \in RawVins(pos) :
              BeginTxWithVin(pos, t.vin, t.vout, t.cenotaph, t.hasFields, rawVin)
    \/ \E etching \in {NoEtching} \cup EtchingChoices : Etch(etching)
    \/ \E mint \in {NoMint} \cup (DOMAIN Dune),
          sats \in [1..Len(Tx.vout) -> SatValues] : Mint(mint, sats)
    \/ \E edict \in EdictChoices : ApplyEdict(edict)
    \/ \E pointer \in PointerChoices : PointerSweep(pointer)
    \/ Finalize

SpecEtch == Init /\ [][NextEtch]_vars

\* Etchings in every mode, by transactions that are no cenotaphs: no amount,
\* amount 0 or 1; no cap, cap 0 or 1; with and without a price
ModeTerms ==
    {[some |-> TRUE, amount |-> a, cap |-> c, height |-> <<Null, Null>>,
      offset |-> <<Null, Null>>, price_amount |-> p.amount,
      price_pay_to |-> p.pay_to] :
        a \in {Null, 0, 1}, c \in {Null, 0, 1},
        p \in {[amount |-> Null, pay_to |-> Null], [amount |-> PriceSats, pay_to |-> 4]}}
ModeEtchings ==
    {[some |-> TRUE, dune |-> "AAA", premine |-> 0, terms |-> t] : t \in ModeTerms}
TxChoicesModes ==
    {t \in [vin : VinChoices, vout : VoutChoices, cenotaph : {FALSE},
            hasFields : BOOLEAN] :
        /\ nTx < MaxTxModes
        /\ nTx = 0 => (~t.hasFields /\ t.vout = <<4>>)}

NextModes ==
    \/ \E pos \in NextPositions, t \in TxChoicesModes :
          BeginTx(pos, t.vin, t.vout, t.cenotaph, t.hasFields)
    \/ \E etching \in {NoEtching} \cup ModeEtchings : Etch(etching)
    \/ \E mint \in {NoMint} \cup (DOMAIN Dune),
          sats \in [1..Len(Tx.vout) -> PricedSatValues] : Mint(mint, sats)
    \/ \E edict \in EdictChoices : ApplyEdict(edict)
    \/ \E pointer \in PointerChoices : PointerSweep(pointer)
    \/ Finalize

SpecModes == Init /\ [][NextModes]_vars

\* decipher, then processDunestone on what it returns. The payloads: no JSON,
\* or an object with p right or wrong, with or without an edict of one unit,
\* an etching with a premine, a mint of the genesis dune, a pointer
ChainPayloads ==
    {NotJson} \cup
    {c \in [json : {TRUE}, p : {"dunes", "runes"}, extraKey : {FALSE},
            edicts : {[some |-> FALSE, list |-> << >>]} \cup
                     {[some |-> TRUE,
                       list |-> <<[id |-> i, amount |-> StringAmount(1),
                                   output |-> o]>>] :
                          i \in {<<0, 0>>, <<1, 0>>}, o \in 0..MaxOut},
            etching : {[some |-> FALSE, dune |-> "", premine |-> StringAmount(0)],
                       [some |-> TRUE, dune |-> "AAA", premine |-> StringAmount(1)]},
            mint : {[some |-> FALSE, val |-> NoMint], [some |-> TRUE, val |-> GenesisId]},
            pointer : {[some |-> FALSE, val |-> NoPointer],
                       [some |-> TRUE, val |-> 0], [some |-> TRUE, val |-> 1]}] :
        OddFields(c) <= MaxOddFields}
ChainTxs ==
    {[vout |-> <<AddressOutput>>]} \cup
    UNION {{[vout |-> <<DataOutput(c)>>],
            [vout |-> <<DataOutput(c), AddressOutput>>]} : c \in ChainPayloads}

NextChain ==
    \/ /\ nTx < MaxTxChain
       /\ \E pos \in NextPositions, vin \in VinChoices :
             \E tx \in IF nTx = 0 THEN {[vout |-> <<AddressOutput>>]} ELSE ChainTxs :
                 BeginTxOf(pos, vin, tx)
    \/ Etch(dunestone.etching)
    \/ \E sats \in [1..Len(Tx.vout) -> SatValues] : Mint(dunestone.mint, sats)
    \/ EdictsCenotaph
    \/ ProcessEdicts(dunestone.edicts, dunestone.pointer)
    \/ Finalize

SpecChain == Init /\ [][NextChain]_vars

\* Edicts in sequence: the etchings are of one name with a premine and no
\* terms, no transaction is a cenotaph, and processEdicts takes the whole
\* list of a dunestone, whose edicts name dunes that exist and outputs of the
\* transaction or their number
EdictEtchings ==
    {[some |-> TRUE, dune |-> "AAA", premine |-> p, terms |-> NoTerms] :
        p \in 1..MAX_U128}
EdictLists ==
    SeqsUpTo([id : DOMAIN Dune, amount : EdictAmounts,
              output : 0..Len(pendingUtxos)], MaxEdictList)
TxChoicesEdicts ==
    {t \in [vin : VinChoices, vout : VoutChoices, cenotaph : {FALSE},
            hasFields : BOOLEAN] :
        /\ nTx < MaxTxEdicts
        /\ nTx = 0 => (~t.hasFields /\ t.vout = <<4>>)}

NextEdicts ==
    \/ \E pos \in NextPositions, t \in TxChoicesEdicts :
          BeginTx(pos, t.vin, t.vout, t.cenotaph, t.hasFields)
    \/ \E etching \in {NoEtching} \cup EdictEtchings : Etch(etching)
    \/ \E mint \in {NoMint, GenesisId}, sats \in [1..Len(Tx.vout) -> SatValues] :
          Mint(mint, sats)
    \/ \E edict \in EdictChoices : ApplyEdict(edict)
    \/ \E pointer \in PointerChoices : PointerSweep(pointer)
    \/ \E edicts \in EdictLists, pointer \in PointerChoices :
          ProcessEdicts(edicts, pointer)
    \/ Finalize

SpecEdicts == Init /\ [][NextEdicts]_vars

\* isMintOpen alone: one call
NextMintOpen ==
    \/ /\ mintOpenArgs = NoMintOpenArgs
       /\ \E args \in MintOpenCalls : CallMintOpen(args)
    \/ ReturnMintOpen

SpecMintOpen == Init /\ [][NextMintOpen]_vars

\* checkCommitment alone: one call
NextCommitment ==
    \/ /\ commitArgs = NoCommitArgs
       /\ \E args \in CommitCalls : CallCommitment(args)
    \/ ReturnCommitment

SpecCommitment == Init /\ [][NextCommitment]_vars

\* the router alone: one request is handled
NextHttp ==
    \/ \E r \in Requests : Request(r)
    \/ GetUtxo
    \/ GetUtxoProtocol
    \/ GetAddress
    \/ GetAddressProtocol
    \/ GetSnapshot
    \/ GetSnapshotProtocol

SpecHttp == Init /\ [][NextHttp]_vars

\* the split alone: every amount of 2 * HalfBits bits is written and read back
NextParts ==
    \/ \E a \in 0..(2^(2 * HalfBits) - 1) : WriteAmount(a)
    \/ ReadAmount

SpecParts == Init /\ [][NextParts]_vars

\* the decoder alone: one transaction is received and deciphered
NextDecode ==
    \/ rawTx = NoRawTx /\ \E tx \in RawTxs : ReceiveTx(tx)
    \/ Decipher

SpecDecode == Init /\ [][NextDecode]_vars

(* --------------------------- the block reader -------------------------- *)

\* the last height the consumer reads
latestBlock == GENESIS_BLOCK + ReaderBlocks - 1

\* parseInt(Object.keys(cachedBlocks).slice(-1)): the largest key, NaN for an
\* empty cache
lastBlockInCache(cache) ==
    IF DOMAIN cache = {} THEN NaN
    ELSE CHOOSE h \in DOMAIN cache : \A g \in DOMAIN cache : g <= h

\* the loop of __fillCache at its test: either a chunk is requested and the
\* call awaits it, or the loop is left and cacheFillProcessing reset
fillLoop(cache, currentBlock) ==
    IF currentBlock <= latestBlock /\ Cardinality(DOMAIN cache) < MAX_BLOCK_CACHE_SIZE
    THEN [awaits |-> TRUE, currentBlock |-> currentBlock,
          chunkSize |-> Min(GET_BLOCK_CHUNK_SIZE, latestBlock - currentBlock + 1)]
    ELSE [awaits |-> FALSE]

\* __fillCache(requestedBlock) up to its first await
fillCache(cache, requestedBlock) ==
    LET last == lastBlockInCache(cache)
    IN  fillLoop(cache, IF last # NaN /\ last # 0 THEN last + 1 ELSE requestedBlock)

\* a variant of getBlock that starts a fill whether or not one is running
GetBlockAlwaysFills ==
    /\ waiting = "idle"
    /\ LET found == requested \in DOMAIN cachedBlocks
           cache == [h \in (DOMAIN cachedBlocks) \ {requested} |-> cachedBlocks[h]]
           f == fillCache(cache, requested)
       IN  /\ cachedBlocks' = cache
           /\ cacheFillProcessing' = (cacheFillProcessing \/ f.awaits)
           /\ fills' = IF f.awaits
                       THEN Append(fills, [currentBlock |-> f.currentBlock,
                                           chunkSize |-> f.chunkSize])
                       ELSE fills
           /\ IF found
              THEN /\ delivered' = Append(delivered, cachedBlocks[requested])
                   /\ requested' = requested + 1
                   /\ waiting' = IF requested = latestBlock THEN "done" ELSE "idle"
              ELSE /\ waiting' = "polling"
                   /\ UNCHANGED <<delivered, requested>>
    /\ UNCHANGED <<MAX_BLOCK_CACHE_SIZE, GET_BLOCK_CHUNK_SIZE, restOfReader>>

\* getBlock(blockNumber) up to the return of the executor: a cached block is
\* taken out and resolves the call; a fill is started unless one is running;
\* without the block the call polls
GetBlock ==
    /\ waiting = "idle"
    /\ LET found == requested \in DOMAIN cachedBlocks
           cache == [h \in (DOMAIN cachedBlocks) \ {requested} |-> cachedBlocks[h]]
           f == fillCache(cache, requested)
       IN  /\ cachedBlocks' = cache
           /\ IF cacheFillProcessing
              THEN UNCHANGED <<cacheFillProcessing, fills>>
              ELSE /\ cacheFillProcessing' = f.awaits
                   /\ fills' = IF f.awaits
                               THEN Append(fills, [currentBlock |-> f.currentBlock,
                                                   chunkSize |-> f.chunkSize])
                               ELSE fills
           /\ IF found
              THEN /\ delivered' = Append(delivered, cachedBlocks[requested])
                   /\ requested' = requested + 1
                   /\ waiting' = IF requested = latestBlock THEN "done" ELSE "idle"
              ELSE /\ waiting' = "polling"
                   /\ UNCHANGED <<delivered, requested>>
    /\ UNCHANGED <<MAX_BLOCK_CACHE_SIZE, GET_BLOCK_CHUNK_SIZE, restOfReader>>

\* the interval callback of getBlock when the block is in the cache
Poll ==
    /\ waiting = "polling"
    /\ requested \in DOMAIN cachedBlocks
    /\ cachedBlocks' = [h \in (DOMAIN cachedBlocks) \ {requested} |-> cachedBlocks[h]]
    /\ delivered' = Append(delivered, cachedBlocks[requested])
    /\ requested' = requested + 1
    /\ waiting' = IF requested = latestBlock THEN "done" ELSE "idle"
    /\ UNCHANGED <<MAX_BLOCK_CACHE_SIZE, GET_BLOCK_CHUNK_SIZE, cacheFillProcessing,
                   fills, restOfReader>>

\* __fillCache from the resolution of Promise.all to its next await or its
\* end: the chunk is stored, block currentBlock + i under that height
FillResume(i) ==
    /\ i \in 1..Len(fills)
    /\ LET cur == fills[i].currentBlock
           got == cur..(cur + fills[i].chunkSize - 1)
           cache == [h \in (DOMAIN cachedBlocks) \cup got |->
                        IF h \in got THEN h ELSE cachedBlocks[h]]
           f == fillLoop(cache, cur + fills[i].chunkSize)
           others == [j \in 1..(Len(fills) - 1) |->
                         IF j < i THEN fills[j] ELSE fills[j + 1]]
       IN  /\ cachedBlocks' = cache
           /\ cacheFillProcessing' = IF f.awaits THEN cacheFillProcessing ELSE FALSE
           /\ fills' = IF f.awaits
                       THEN [fills EXCEPT ![i] = [currentBlock |-> f.currentBlock,
                                                  chunkSize |-> f.chunkSize]]
                       ELSE others
    /\ UNCHANGED <<MAX_BLOCK_CACHE_SIZE, GET_BLOCK_CHUNK_SIZE, requested, waiting,
                   delivered, restOfReader>>

InitReader ==
    /\ EngineInit
    /\ DecoderInit
    /\ HttpInit
    /\ UtilsInit
    /\ RulesInit
    /\ \E max \in 1..MaxCacheSize, chunk \in 1..MaxChunkSize : ReaderInit(max, chunk)

NextReader ==
    \/ GetBlock
    \/ Poll
    \/ \E i \in 1..Len(fills) : FillResume(i)

\* every RPC call succeeds and the event loop runs every callback
FairReader ==
    /\ WF_vars(GetBlock)
    /\ WF_vars(Poll)
    /\ WF_vars(\E i \in 1..Len(fills) : FillResume(i))

SpecReader == InitReader /\ [][NextReader]_vars /\ FairReader

\* one of the RPC calls of a chunk rejects: Promise.all rejects, the await
\* throws and the run ends there, before the line that resets the flag
FillFails(i) ==
    /\ i \in 1..Len(fills)
    /\ fills' = [j \in 1..(Len(fills) - 1) |->
                     IF j < i THEN fills[j] ELSE fills[j + 1]]
    /\ UNCHANGED <<MAX_BLOCK_CACHE_SIZE, GET_BLOCK_CHUNK_SIZE, cachedBlocks,
                   cacheFillProcessing, requested, waiting, delivered,
                   restOfReader>>

\* the block reader with RPC calls that may fail
NextReaderFails ==
    \/ GetBlock
    \/ Poll
    \/ \E i \in 1..Len(fills) : FillResume(i)
    \/ \E i \in 1..Len(fills) : FillFails(i)

SpecReaderFails == InitReader /\ [][NextReaderFails]_vars

(* ----------------------------- properties ------------------------------ *)

\* finalizeTransfers has returned for the transaction Tx
Done == pc = "idle" /\ hist.done

\* what entered U of dune d in the transaction: inputs, premine and mint
Entered(d) ==
    Get(hist.u0, d)
    + (IF d = Tx.hash THEN hist.premined ELSE 0)
    + (IF hist.mint = d THEN hist.minted ELSE 0)

\* the Utxo keys of the outputs of the transaction
OutputKeys == {<<Tx.hash, i>> : i \in 0..(MaxOut - 1)}

\* the Utxo_balance rows of dune d over the Utxo keys K
BalanceOver(K, d) ==
    SumOver([k \in K |-> Get(Utxo_balance, <<k, d>>)], K)

\* the increase of burnt_amount of dune d in the transaction
Burned(d) == Dune[d].burnt_amount - Get(hist.burnt0, d)

\* what the pending outputs hold of dune d
Pending(d) ==
    SumOver([i \in 1..Len(pendingUtxos) |-> Get(pendingUtxos[i].dune_balances, d)],
            1..Len(pendingUtxos))

\* C1: conservation. For every transaction processDunestone has processed and
\* every dune, what the inputs carried plus the premine plus the mint equals
\* what is persisted as Utxo_balance rows on the new outputs plus the increase
\* of burnt_amount, whatever the output layout.
C1_Conservation ==
    Done => \A d \in DOMAIN Dune : Entered(d) = BalanceOver(OutputKeys, d) + Burned(d)

\* C2: for every (address, dune) the Balance row equals the sum of the
\* Utxo_balance rows of that dune over the unspent Utxo rows of that address,
\* a missing Balance row counting as 0.
C2_BalanceAgrees ==
    pc = "idle" =>
        \A a \in Address, d \in DOMAIN Dune :
            Get(Balance, <<a, d>>) =
                BalanceOver({k \in DOMAIN Utxo : /\ Utxo[k].address_id = a
                                                 /\ Utxo[k].block_spent = Null}, d)

\* the same without a Utxo gathered after it was spent
BalanceAgreesUnlessRespent == hist.respent \/ C2_BalanceAgrees

\* C3: for every non-flex dune whose mint_cap is set, 0 included, mints never
\* exceeds mint_cap.
C3_CapEnforced ==
    \A d \in DOMAIN Dune :
        (Dune[d].price_amount = Null /\ Dune[d].mint_cap # Null)
            => Dune[d].mints <= Dune[d].mint_cap

\* C4: after processEdicts has returned for a transaction that is no cenotaph,
\* every entry of U is zero and every unit that entered U is held by a pending
\* output.
C4_SweepComplete ==
    (pc = "finalize" /\ ~Tx.cenotaph) =>
        /\ \A d \in DOMAIN UnallocatedDunes : UnallocatedDunes[d] = 0
        /\ \A d \in DOMAIN Dune : Pending(d) = Entered(d)

\* C4's case: the sweep had units of two dunes to move
C4_Witness ==
    /\ pc = "finalize" /\ ~Tx.cenotaph /\ hist.swept
    /\ Cardinality({d \in DOMAIN Dune : Entered(d) > 0}) > 1

\* C5: for a cenotaph, every dune the inputs carried has its burnt_amount
\* increased by exactly the carried amount, no pending output holds a balance,
\* and no Utxo or Utxo_balance row is created for the outputs.
C5_Cenotaph ==
    (Done /\ Tx.cenotaph) =>
        /\ \A d \in DOMAIN Dune : Burned(d) = Get(hist.u0, d)
        /\ \A d \in DOMAIN Dune : Pending(d) = 0
        /\ \A k \in OutputKeys : k \notin DOMAIN Utxo
        /\ \A kb \in DOMAIN Utxo_balance : kb[1] \notin OutputKeys

\* C5's case: a cenotaph whose inputs carried units, with an OP_RETURN output
C5_Witness ==
    /\ Done /\ Tx.cenotaph
    /\ \E d \in DOMAIN Dune : Get(hist.u0, d) > 0
    /\ \E i \in 1..Len(pendingUtxos) : pendingUtxos[i].address_id = OP_RETURN

\* C6: a Utxo whose block_spent is set is not gathered as an input again.
C6_NoRespend ==
    pc \in {"etch", "mint", "edicts", "finalize"} =>
        \A k \in 1..Len(inputUtxos) :
            Utxo[inputUtxos[k].utxo_index].block_spent = Null

\* C7: no two Dune rows created share a dune_protocol_id or a name, the
\* genesis dune included: an etching whose id or name is known creates nothing.
C7_DuneUnique ==
    /\ \A i, j \in 1..Len(hist.created) :
          i # j => /\ hist.created[i].id # hist.created[j].id
                   /\ hist.created[i].name # hist.created[j].name
    /\ DOMAIN Dune = {hist.created[i].id : i \in 1..Len(hist.created)}
    /\ \A d, e \in DOMAIN Dune : d # e => Dune[d].name # Dune[e].name

\* C7's case: an etching that names an existing dune has been processed
C7_Witness == pc = "mint" /\ hist.nameTaken /\ Len(hist.created) > 0

\* C8: every Utxo row is for an output that is no OP_RETURN and holds a
\* positive total, and every Utxo_balance row has a positive balance.
C8_PersistedRows ==
    /\ \A k \in DOMAIN Utxo :
          /\ Utxo[k].address_id # OP_RETURN
          /\ BalanceOver({k}, GenesisId)
             + SumOver([d \in DOMAIN Dune |-> Get(Utxo_balance, <<k, d>>)],
                       (DOMAIN Dune) \ {GenesisId}) > 0
    /\ \A kb \in DOMAIN Utxo_balance : Utxo_balance[kb] > 0 /\ kb[1] \in DOMAIN Utxo

\* C8's case: a transaction with units on an OP_RETURN output and on a user
\* output, and a pending balance of 0 that is not written
C8_Witness ==
    /\ Done
    /\ \E i \in 1..Len(pendingUtxos) :
          /\ pendingUtxos[i].address_id = OP_RETURN
          /\ SumMap(pendingUtxos[i].dune_balances) > 0
    /\ \E i \in 1..Len(pendingUtxos) :
          /\ pendingUtxos[i].address_id # OP_RETURN
          /\ SumMap(pendingUtxos[i].dune_balances) > 0
          /\ \E d \in DOMAIN pendingUtxos[i].dune_balances :
                pendingUtxos[i].dune_balances[d] = 0

\* an amount fits the width
InRange(x) == 0 <= x /\ x <= MAX_U128

\* C9: every entry of U, every pending balance, every Utxo_balance, every
\* Balance and every burnt_amount lies in [0, 2^128).
C9_NoOverflow ==
    /\ \A d \in DOMAIN UnallocatedDunes : InRange(UnallocatedDunes[d])
    /\ \A i \in 1..Len(pendingUtxos) :
          \A d \in DOMAIN pendingUtxos[i].dune_balances :
              InRange(pendingUtxos[i].dune_balances[d])
    /\ \A kb \in DOMAIN Utxo_balance : InRange(Utxo_balance[kb])
    /\ \A b \in DOMAIN Balance : InRange(Balance[b])
    /\ \A d \in DOMAIN Dune : InRange(Dune[d].burnt_amount)

\* C10: a consumer that asks for the heights GENESIS_BLOCK..latestBlock in
\* order, each call made after the previous one resolved, gets every block:
\* every call eventually resolves, for every MAX_BLOCK_CACHE_SIZE >= 1 and
\* GET_BLOCK_CHUNK_SIZE >= 1.
C10_ReaderLive == <>(waiting = "done")

\* each call resolves with the block of the height asked for
ReaderInOrder ==
    \A i \in 1..Len(delivered) : delivered[i] = GENESIS_BLOCK + i - 1

\* C11: bounded window. In every reachable state of blockManager the number
\* of blocks held in cachedBlocks is at most MAX_BLOCK_CACHE_SIZE, for every
\* GET_BLOCK_CHUNK_SIZE.
C11_BoundedWindow == Cardinality(DOMAIN cachedBlocks) <= MAX_BLOCK_CACHE_SIZE

\* the same when every chunk is one block
BoundedWindowUnitChunk == GET_BLOCK_CHUNK_SIZE = 1 => C11_BoundedWindow

\* decipher has returned or thrown for rawTx
Decoded == dunestone # NotDecoded

\* the payload of the first OP_RETURN output of rawTx
firstPayload == rawTx.vout[opOutput(rawTx.vout)].payload

\* an amount of the payload is a decimal string within [0, 2^128)
AmountOk(a) == a.type = "decimal" /\ InRange(a.val)

\* the payload fails the schema: p, an unknown key, an amount, a field type
SchemaFails(c) ==
    \/ c.p \notin {"dunes", "https://dunes.sh"}
    \/ c.extraKey
    \/ c.edicts.some /\ \E i \in 1..Len(c.edicts.list) :
           ~AmountOk(c.edicts.list[i].amount) \/ c.edicts.list[i].output \notin 0..MAX_U8
    \/ c.etching.some /\ ~AmountOk(c.etching.premine)
    \/ c.mint.some /\ \E k \in 1..2 : c.mint.val[k] \notin 0..MAX_U32
    \/ c.pointer.some /\ c.pointer.val \notin 0..MAX_U32

\* some edict of the payload has the output o as its target, o beyond n
EdictOutputBeyond(c, n) ==
    c.edicts.some /\ \E i \in 1..Len(c.edicts.list) : c.edicts.list[i].output > n

\* the fields of the payload, as returned
FieldsReturned(c) ==
    /\ dunestone.keys = parsedKeys(c)
    /\ Len(dunestone.edicts) = Len(c.edicts.list)
    /\ \A i \in 1..Len(c.edicts.list) :
          /\ dunestone.edicts[i].id = c.edicts.list[i].id
          /\ dunestone.edicts[i].amount = c.edicts.list[i].amount.val
          /\ dunestone.edicts[i].output = c.edicts.list[i].output
    /\ dunestone.etching.some = c.etching.some
    /\ c.etching.some => dunestone.etching.premine = c.etching.premine.val
    /\ dunestone.mint = c.mint.val
    /\ dunestone.pointer = c.pointer.val

\* the classification of C12 for the deciphered rawTx
Classified ==
    IF opOutput(rawTx.vout) = 0 THEN dunestone = OnlyCenotaph(FALSE)
    ELSE LET c == firstPayload
         IN  /\ ~dunestone.threw
             /\ dunestone.cenotaph <=>
                    \/ ~c.json
                    \/ SchemaFails(c)
                    \/ EdictOutputBeyond(c, Len(rawTx.vout))
                    \/ c.edicts.some /\ badZeroDune(c)
             /\ ~dunestone.cenotaph => FieldsReturned(c)

\* C12: decipher returns {cenotaph:false} and nothing else without an
\* OP_RETURN output; otherwise it looks at the first one only and returns
\* cenotaph=true exactly when the payload is no JSON, fails the schema, has an
\* edict whose output is greater than the vout count, or an edict id 0:t with
\* t # 0; in every other case it returns the decoded fields, cenotaph=false.
C12_Classification == Decoded => Classified

\* the same for the payloads whose mint lies within u32 and whose edicts do
\* not name the output count
ClassifiedButCountAndMint ==
    (/\ Decoded
     /\ opOutput(rawTx.vout) # 0
     /\ ~(firstPayload.mint.some /\ MintTransformThrows(firstPayload.mint.val))
     /\ ~(EdictOutputBeyond(firstPayload, Len(rawTx.vout) - 1)
          /\ ~EdictOutputBeyond(firstPayload, Len(rawTx.vout))))
        => Classified

\* the payload is schema-valid and an edict of it names the output count, none
\* a greater output and none an id 0:t with t # 0
SpreadEdict ==
    /\ opOutput(rawTx.vout) # 0
    /\ firstPayload.json
    /\ ~SchemaFails(firstPayload)
    /\ ~badZeroDune(firstPayload)
    /\ EdictOutputBeyond(firstPayload, Len(rawTx.vout) - 1)
    /\ ~EdictOutputBeyond(firstPayload, Len(rawTx.vout))

\* C13: a schema-valid dunestone with an edict whose output equals the vout
\* count is decoded with cenotaph=false, so that the split rule of the engine
\* (edict.output = number of pending outputs) can be reached through decipher;
\* only an output greater than the vout count gives a cenotaph.
C13_SpreadDecoded ==
    (Decoded /\ SpreadEdict) => (~dunestone.threw /\ ~dunestone.cenotaph)

\* no dunestone decipher returns has an edict that names the output count:
\* processEdicts, whose pendingUtxos has one entry for each vout, never takes
\* its split branch on a deciphered dunestone
SpreadNeverReturned ==
    Decoded => \A i \in 1..Len(dunestone.edicts) :
                   dunestone.edicts[i].output < Len(rawTx.vout)

C15_RejectedMintIgnored ==
    [][(pc = "mint" /\ hist'.mintCase \in {"unknown", "price", "closed", "zero"})
          => (/\ pc' = "edicts"
              /\ UNCHANGED <<Dune, Event, UnallocatedDunes>>)]_vars

\* C15's case: a mint against a price was paid less than one unit costs, and
\* the transaction went on
C15_Witness == Done /\ hist.mintCase = "zero" /\ hist.swept

\* the other rejections of a mint that occur
MintUnknownSeen == pc = "edicts" /\ hist.mintCase = "unknown"
MintPriceSeen == pc = "edicts" /\ hist.mintCase = "price"
MintClosedSeen == pc = "edicts" /\ hist.mintCase = "closed"

\* the handler of the request has returned
Handled == handler = "returned"

\* a parameter of the request is malformed
Malformed(r) ==
    \/ r.route \in {"utxo", "utxo_protocol"} /\ (~r.hash \/ ~r.vout)
    \/ r.route \in {"address", "address_protocol", "snapshot", "snapshot_protocol"}
       /\ ~r.address
    \/ r.route \in {"snapshot", "snapshot_protocol"}
       /\ (~r.start_block \/ ~r.end_block)
    \/ r.route \in {"utxo_protocol", "address_protocol", "snapshot_protocol"}
       /\ ~r.rune_protocol_id

\* C16: on every route a request whose address, txid:vout or protocol id is
\* malformed is answered, exactly once, with the status 400; no request is
\* left without a response.
C16_MalformedIs400 ==
    (Handled /\ Malformed(req)) => (res.sent = 1 /\ res.status = 400)

\* the same on the routes other than /utxo/:utxo_index/:rune_protocol_id
MalformedIs400ButUtxoProtocol ==
    req.route = "utxo_protocol" \/ C16_MalformedIs400

\* C17: on every route a well-formed request that matches no row is answered
\* with the status 200 and the empty object {} as its body.
C17_EmptyIsEmptyObject ==
    (Handled /\ ~Malformed(req) /\ req.rows = "none")
        => (res.sent = 1 /\ res.status = 200 /\ res.body = "{}")

\* the same on the address and snapshot routes
EmptyIsEmptyObjectButUtxo ==
    req.route \in {"utxo", "utxo_protocol"} \/ C17_EmptyIsEmptyObject

\* a part lies in the signed range of HalfBits bits
InSignedRange(n) == 0 - 2^(HalfBits - 1) <= n /\ n < 2^(HalfBits - 1)

\* C18: for every amount x in [0, 2^128), convertAmountToParts(x) yields
\* balance_0 and balance_1 in the signed 64-bit range, and
\* convertPartsToAmount(balance_0, balance_1) = x.
C18_SplitRoundTrip ==
    /\ amountIn # Null => /\ InSignedRange(BigInt(parts.balance_0))
                          /\ InSignedRange(BigInt(parts.balance_1))
    /\ joined # Null => joined = amountIn

\* C18's case: an amount whose two halves have their top bit set was read
\* back
C18_Witness ==
    /\ joined # Null
    /\ BigInt(parts.balance_0) < 0
    /\ BigInt(parts.balance_1) < 0

\* C19: processBlock hands the transactions of a block to processDunestone in
\* increasing index order, and when processDunestone throws for a transaction
\* the error leaves processBlock: no later transaction is processed.
C19_InOrderAndAbort ==
    [][/\ pc # "aborted"
       /\ nTx' # nTx =>
             /\ pc = "idle"
             /\ nTx' = nTx + 1
             /\ \/ nTx = 0
                \/ Tx'.block = Tx.block /\ Tx'.txIndex > Tx.txIndex
                \/ Tx'.block > Tx.block]_vars

\* C19's case: processDunestone threw for a transaction that is not the last
\* of its block
C19_Witness == pc = "aborted" /\ Tx.txIndex < TxPerBlock /\ nTx < MaxTx

\* the types of the events of transaction h
EventTypes(h) ==
    {Event[i].type : i \in {j \in 1..Len(Event) : Event[j].transaction_id = h}}

\* C20: within a block the events are created in the order of the
\* transactions, and within a transaction every ETCH event before every MINT,
\* every MINT before every TRANSFER and every TRANSFER before every BURN.
C20_EventOrder ==
    \A i, j \in 1..Len(Event) :
        i < j =>
            \/ IdLess(Event[i].transaction_id, Event[j].transaction_id)
            \/ /\ Event[i].transaction_id = Event[j].transaction_id
               /\ Event[i].type <= Event[j].type

\* C20's case: a transaction has created an event of each of the four types
C20_Witness == Done /\ EventTypes(Tx.hash) = {0, 1, 2, 3}

\* the balance of dune d on every pending output is what it was, plus U[d]
\* on the output i
MovedTo(i) ==
    /\ Len(pendingUtxos') = Len(pendingUtxos)
    /\ \A j \in 1..Len(pendingUtxos), d \in DOMAIN UnallocatedDunes :
          Get(pendingUtxos'[j].dune_balances, d) =
              Get(pendingUtxos[j].dune_balances, d)
              + (IF j = i THEN UnallocatedDunes[d] ELSE 0)

\* the outputs the residual may go to: the pointer's when the pointer is set
\* and in range, else the first output that is not an OP_RETURN, else an
\* OP_RETURN output
Destinations(P, pointer) ==
    LET nonOp == nonOpReturnOutputs(P)
    IN  IF pointer # NoPointer /\ pointer < Len(P) THEN {pointer + 1}
        ELSE IF Len(nonOp) > 0 THEN {nonOp[1]}
        ELSE {i \in 1..Len(P) : P[i].address_id = OP_RETURN}

\* C21: pointer destination. In a transaction that is no cenotaph the
\* residual U is moved to exactly one output: pendingUtxos[pointer] whenever
\* the pointer is set and in range (0 and an OP_RETURN output included), else
\* the first output that is not an OP_RETURN, else an OP_RETURN output.
C21_PointerDestination ==
    [][\A pointer \in PointerChoices :
          (PointerSweep(pointer) /\ pc' = "finalize")
              => \E i \in Destinations(pendingUtxos, pointer) : MovedTo(i)]_vars

\* the same for every pointer but 0
PointerDestinationButZero ==
    [][\A pointer \in PointerChoices \ {0} :
          (PointerSweep(pointer) /\ pc' = "finalize")
              => \E i \in Destinations(pendingUtxos, pointer) : MovedTo(i)]_vars

\* the edict divides what is left of its dune between the outputs that are no
\* OP_RETURN
IsEvenSplit(edict) == edict.amount = 0 /\ edict.output = Len(pendingUtxos)

\* C22: even split. An edict with amount 0 and output equal to the number of
\* pending outputs, with n >= 1 outputs that are no OP_RETURN and U[d] = u > 0,
\* gives the i-th of them (from 0, in vout order) exactly
\* floor(u / n) + (1 if i < u mod n else 0) units of d, for every u and n,
\* u < n included, and leaves U[d] = 0; with n = 0 the edict allocates
\* nothing.
C22_EvenSplit ==
    [][\A edict \in EdictChoices :
          LET d == EdictId(Tx, edict)
              u == Get(UnallocatedDunes, d)
              nonOp == nonOpReturnOutputs(pendingUtxos)
              n == Len(nonOp)
          IN  (ApplyEdict(edict) /\ IsEvenSplit(edict) /\ u > 0)
                  => /\ pc' = "edicts"
                     /\ IF n = 0
                        THEN UNCHANGED <<UnallocatedDunes, pendingUtxos, transfers>>
                        ELSE /\ Get(UnallocatedDunes', d) = 0
                             /\ \A k \in 1..n :
                                   Get(pendingUtxos'[nonOp[k]].dune_balances, d) =
                                       Get(pendingUtxos[nonOp[k]].dune_balances, d)
                                       + (u \div n)
                                       + (IF k - 1 < u % n THEN 1 ELSE 0)
                             /\ \A j \in 1..Len(pendingUtxos) :
                                   pendingUtxos[j].address_id = OP_RETURN
                                       => pendingUtxos'[j] = pendingUtxos[j]]_vars

\* C22's case: the premine of 3 units of the transaction's dune was divided
\* between two outputs, 2 to the first and 1 to the second
C22_Witness ==
    /\ pc = "edicts"
    /\ edictIndex = 1
    /\ hist.premined = 3
    /\ Len(pendingUtxos) = 2
    /\ Get(pendingUtxos[1].dune_balances, Tx.hash) = 2
    /\ Get(pendingUtxos[2].dune_balances, Tx.hash) = 1
    /\ Get(UnallocatedDunes, Tx.hash) = 0

\* fewer units than outputs: one unit divided between two outputs
SplitOfOneSeen ==
    /\ pc = "edicts"
    /\ edictIndex = 1
    /\ hist.premined = 1
    /\ Len(pendingUtxos) = 2
    /\ Get(pendingUtxos[1].dune_balances, Tx.hash) = 1
    /\ pendingUtxos[2].address_id # OP_RETURN
    /\ Get(pendingUtxos[2].dune_balances, Tx.hash) = 0
    /\ Get(UnallocatedDunes, Tx.hash) = 0

\* what allocate gives of the amount asked for when u units are left
Give(amount, u) == IF amount = 0 \/ u < amount THEN u ELSE amount

\* the units of dune d on the pending outputs P
Held(P, d) ==
    SumOver([j \in 1..Len(P) |-> Get(P[j].dune_balances, d)], 1..Len(P))

\* the step leaves no U[d] negative and the sum of U[d] and of d on the
\* pending outputs as it was
Conserved ==
    \A d \in (DOMAIN UnallocatedDunes) \cup (DOMAIN UnallocatedDunes') :
        /\ Get(UnallocatedDunes', d) >= 0
        /\ Get(UnallocatedDunes', d) + Held(pendingUtxos', d) =
              Get(UnallocatedDunes, d) + Held(pendingUtxos, d)

\* an iteration of the loop gives Give(amount, U[d]) to the output of the
\* edict, or, with a non-zero amount and the number of outputs as output,
\* min(amount, what is left) to each output that is no OP_RETURN in vout order
EdictAllocates(edict) ==
    LET d == EdictId(Tx, edict)
        u == Get(UnallocatedDunes, d)
        nonOp == nonOpReturnOutputs(pendingUtxos)
    IN  /\ Conserved
        /\ edict.output < Len(pendingUtxos) =>
              /\ Get(UnallocatedDunes', d) = u - Give(edict.amount, u)
              /\ Get(pendingUtxos'[edict.output + 1].dune_balances, d) =
                    Get(pendingUtxos[edict.output + 1].dune_balances, d)
                    + Give(edict.amount, u)
        /\ (edict.output = Len(pendingUtxos) /\ edict.amount # 0) =>
              \A k \in 1..Len(nonOp) :
                  Get(pendingUtxos'[nonOp[k]].dune_balances, d) =
                      Get(pendingUtxos[nonOp[k]].dune_balances, d)
                      + Min(edict.amount, Max(0, u - (k - 1) * edict.amount))

\* two edicts with an output of the transaction each: the first takes its
\* share of U as it finds it, the second of what the first left, and what
\* both leave goes to one output
InDeclarationOrder(edicts) ==
    LET d1 == EdictId(Tx, edicts[1])
        d2 == EdictId(Tx, edicts[2])
        g1 == Give(edicts[1].amount, Get(UnallocatedDunes, d1))
        g2 == Give(edicts[2].amount,
                   Get(UnallocatedDunes, d2) - (IF d2 = d1 THEN g1 ELSE 0))
        given(j, d) ==
            (IF j = edicts[1].output + 1 /\ d = d1 THEN g1 ELSE 0)
            + (IF j = edicts[2].output + 1 /\ d = d2 THEN g2 ELSE 0)
        rest(d) == Get(UnallocatedDunes, d)
                   - (IF d = d1 THEN g1 ELSE 0) - (IF d = d2 THEN g2 ELSE 0)
    IN  \E i \in 1..Len(pendingUtxos) :
            \A j \in 1..Len(pendingUtxos), d \in DOMAIN UnallocatedDunes :
                Get(pendingUtxos'[j].dune_balances, d) =
                    Get(pendingUtxos[j].dune_balances, d) + given(j, d)
                    + (IF j = i THEN rest(d) ELSE 0)

\* C23: allocation primitive and edict order. The edicts are applied in the
\* order of their declaration, and each allocate(utxo, d, amt) moves
\* give = U[d] if amt = 0 or U[d] < amt, else amt, from U[d] to
\* utxo.dune_balances[d]: after it U[d] >= 0 and the sum of U[d] and of d on
\* the pending outputs is unchanged; an edict with a non-zero amount and
\* output equal to the number of pending outputs gives min(amount, what is
\* left of U[d]) to each output that is no OP_RETURN, in vout order.
C23_AllocateInOrder ==
    [][/\ \A edict \in EdictChoices :
             (ApplyEdict(edict) /\ pc' = "edicts") => EdictAllocates(edict)
       /\ (pc = "edicts" /\ pc' = "finalize" /\ ~Tx.cenotaph) =>
             /\ Conserved
             /\ (/\ Len(hist'.edicts) = 2
                 /\ hist'.edicts[1].output < Len(pendingUtxos)
                 /\ hist'.edicts[2].output < Len(pendingUtxos))
                    => InDeclarationOrder(hist'.edicts)]_vars

\* C23's case: of a premine of 3 units, a first edict has sent 1 unit to the
\* output 0 and a second one, which asks for 3 units, the 2 units left to the
\* output 1
C23_Witness ==
    /\ pc = "finalize"
    /\ hist.premined = 3
    /\ hist.edicts = <<[id |-> Tx.hash, amount |-> 1, output |-> 0],
                       [id |-> Tx.hash, amount |-> MAX_U128, output |-> 1]>>
    /\ Get(pendingUtxos[1].dune_balances, Tx.hash) = 1
    /\ Get(pendingUtxos[2].dune_balances, Tx.hash) = 2

\* the provided (non-null) values among the two
Provided(a, b) == {a, b} \ {Null}

\* the largest and the smallest member of a set of numbers that is not empty
Largest(S) == CHOOSE x \in S : \A y \in S : y <= x
Smallest(S) == CHOOSE x \in S : \A y \in S : x <= y

\* an offset counted from the creation block, when it is provided
FromCreation(offset, c) == IF offset = Null THEN Null ELSE c + offset

\* the window of the claim: start is the max of the provided values among
\* mint_start and creation block + mint_offset_start, the creation block
\* when none is; end is the min of the provided values among mint_end and
\* creation block + mint_offset_end, and there is no end when none is
InWindow(block, Rune, c) ==
    LET starts == Provided(Rune.mint_start, FromCreation(Rune.mint_offset_start, c))
        ends == Provided(Rune.mint_end, FromCreation(Rune.mint_offset_end, c))
        start == IF starts = {} THEN c ELSE Largest(starts)
    IN  /\ start <= block
        /\ ends # {} => block <= Smallest(ends)

\* the call is of the claim: the dune is mintable and under its cap, and the
\* transaction is not the one that created it
WindowDecides(a) ==
    /\ ~a.Rune.unmintable
    /\ ~OverCap(a.Rune, TRUE)
    /\ ~(a.block = a.id[1] /\ a.txIndex = a.id[2])

\* C24: mint window. For a mintable dune under its cap and a (block,
\* txIndex) other than its creation point, isMintOpen returns true iff
\* start <= block <= end, start being the max of the provided values among
\* mint_start and creation_block + mint_offset_start (creation_block if none)
\* and end the min of the provided values among mint_end and
\* creation_block + mint_offset_end (no end if none); provided means
\* non-null, so that mint_end = creation_block, mint_start = creation_block
\* and an offset of 0 count as provided.
C24_MintWindow ==
    (mintOpenRet # "none" /\ WindowDecides(mintOpenArgs)) =>
        (mintOpenRet = "true" <=>
            InWindow(mintOpenArgs.block, mintOpenArgs.Rune,
                     CreationBlock(mintOpenArgs.id)))

\* the same for the dunes whose window ends neither with mint_end at the
\* creation block nor with an offset of 0
MintWindowButEndAtCreation ==
    (/\ mintOpenRet # "none"
     /\ WindowDecides(mintOpenArgs)
     /\ mintOpenArgs.Rune.mint_end # CreationBlock(mintOpenArgs.id)
     /\ mintOpenArgs.Rune.mint_offset_end # 0) =>
        (mintOpenRet = "true" <=>
            InWindow(mintOpenArgs.block, mintOpenArgs.Rune,
                     CreationBlock(mintOpenArgs.id)))

(* --------------------- unmintable dunes, self-mint --------------------- *)

\* the row has no mint amount and is not flex
NoAmountNotFlex(row) ==
    /\ row.mint_amount \in {Null, 0}
    /\ ~(row.mint_amount = 0 /\ row.price_amount # Null)

\* the transaction in hand etched dune d: by its own dunestone, or, the
\* coinbase of GENESIS_BLOCK, by handleGenesis
EtchedHere(d) ==
    /\ d \in DOMAIN Dune
    /\ \/ d = Tx.hash
       \/ d = GenesisId /\ Tx.coinbase /\ Tx.block = GENESIS_BLOCK

\* an unmintable dune's mints is 0 after the step, and a dune the step etches
\* with no mint amount and not flex is unmintable
UnmintableStep ==
    /\ \A d \in DOMAIN Dune' : Dune'[d].unmintable => Dune'[d].mints = 0
    /\ (pc = "etch" /\ Tx.hash \in (DOMAIN Dune') \ (DOMAIN Dune)
        /\ NoAmountNotFlex(Dune'[Tx.hash]))
          => Dune'[Tx.hash].unmintable

\* a processMint step on a mint of the dune the transaction etched changes
\* neither the Dune table, nor U, nor the events
SelfMintStep ==
    (pc = "mint" /\ pc' # "mint" /\ EtchedHere(hist'.mint))
       => /\ Dune' = Dune
          /\ UnallocatedDunes' = UnallocatedDunes
          /\ Event' = Event

\* C25: a dune etched without terms, or with no mint amount and not flex, is
\* created unmintable and its mints stays 0; a mint carried by the transaction
\* that etched the dune is rejected
C25_UnmintableAndSelfMint == [][UnmintableStep /\ SelfMintStep]_vars

\* the same, but for the genesis dune in the coinbase of GENESIS_BLOCK
UnmintableAndSelfMintButGenesis ==
    [][UnmintableStep /\ (hist'.mint # GenesisId => SelfMintStep)]_vars

\* a transaction asked for a mint of the unmintable dune that the transaction
\* before it etched without terms, and finished
UnmintableMintSeen ==
    /\ Done
    /\ hist.mint \in DOMAIN Dune
    /\ hist.mint # Tx.hash
    /\ hist.mint # GenesisId
    /\ Dune[hist.mint].unmintable
    /\ Dune[hist.mint].mint_amount = Null
    /\ hist.mintCase = "closed"

\* a transaction asked for a mint of the dune it etched with a mint amount
SelfMintSeen ==
    /\ pc = "edicts"
    /\ hist.mint = Tx.hash
    /\ Tx.hash \in DOMAIN Dune
    /\ ~Dune[Tx.hash].unmintable
    /\ hist.mintCase = "closed"

\* a later transaction of the block that etched a dune minted it
SameBlockMintSeen ==
    /\ pc = "edicts"
    /\ hist.mintCase = "minted"
    /\ hist.mint # GenesisId
    /\ hist.mint[1] = Tx.block
    /\ hist.mint[2] < Tx.txIndex
    /\ Dune[hist.mint].mints = 1

(* ----------------------------- mint amount ----------------------------- *)

\* the sat values an output may carry in the specification that runs
SatChoices == [1..Len(Tx.vout) -> PricedSatValues]

\* the amount the claimed rule gives a mint of row D paid with sats: the mint
\* amount in fixed mode, the units paid for in flex mode
ClaimedAmount(D, sats) ==
    IF D.mint_amount # Null /\ D.mint_amount > 0 THEN D.mint_amount
    ELSE TotalRecv(Tx.vout, sats, D.price_pay_to) \div D.price_amount

FlexMintSeen ==
    /\ pc = "edicts"
    /\ hist.mintCase = "minted"
    /\ Dune[hist.mint].mint_amount = 0
    /\ Dune[hist.mint].price_amount = PriceSats
    /\ Get(UnallocatedDunes, hist.mint) = (PriceSats + 1) \div PriceSats

(* ---------------------------- cenotaph mint ---------------------------- *)

\* processMint took the mint of a cenotaph whose dune exists, meets the price
\* terms and is open
CenotaphMintStep ==
    pc = "mint" /\ pc' = "edicts" /\ Tx.cenotaph /\ hist'.mintCase = "cenotaph"

\* C27: processMint on a cenotaph with a mint whose dune exists, meets the
\* price terms and is open increments the dune's mints by one and adds nothing
\* to U
C27_CenotaphMint ==
    [][CenotaphMintStep =>
          /\ Dune'[hist'.mint].mints = Dune[hist'.mint].mints + 1
          /\ UnallocatedDunes' = UnallocatedDunes]_vars

\* the same mint adds nothing to U and leaves the Dune table as it was
CenotaphMintChangesNothing ==
    [][CenotaphMintStep => Dune' = Dune /\ UnallocatedDunes' = UnallocatedDunes]_vars

\* processMint returned on the cenotaph test
CenotaphMintSeen ==
    pc = "edicts" /\ Tx.cenotaph /\ hist.mintCase = "cenotaph" /\ hist.mint = GenesisId

(* ------------------------- minimum name length ------------------------- *)

\* C28: no dune that processEtching created at height block has a name
\* shorter than min_len(block) = 13 - floor((block - GENESIS_BLOCK) / 17500):
\* the etching of a shorter name is rejected
C28_MinimumLength ==
    \A d \in (DOMAIN Dune) \ {GenesisId} :
        Len(Dune[d].name) >= minimumLengthAtHeight(d[1])

(* ------------------------- commitment validity ------------------------- *)

\* checkCommitment has returned or thrown
Committed == commitRet # "none"

\* the input shows the commitment: it is no coinbase and an element of its
\* witness decodes as a script that holds the commitment bytes
ShowsCommitment(input) ==
    /\ ~input.coinbase
    /\ \E i \in 1..Len(input.txinwitness) : input.txinwitness[i] = "script"

\* the input qualifies: it shows the commitment, the output it spends is a
\* taproot output and has COMMIT_CONFIRMATIONS confirmations
Qualifies(input, block) ==
    /\ ShowsCommitment(input)
    /\ input.prev.fails = "none"
    /\ input.prev.taproot
    /\ block - input.prev.height + 1 >= COMMIT_CONFIRMATIONS

\* an RPC call about an input that shows the commitment fails
RpcFails(a) ==
    \E k \in 1..Len(a.vin) :
        ShowsCommitment(a.vin[k]) /\ a.vin[k].prev.fails # "none"

\* the claimed result of the call a
CommitmentDecides(a) ==
    LET qualifies == \E k \in 1..Len(a.vin) : Qualifies(a.vin[k], a.block)
    IN  /\ commitRet = "true" => qualifies
        /\ ~RpcFails(a) => commitRet = IF qualifies THEN "true" ELSE "false"
        /\ commitRet \notin {"true", "false"} => commitRet = "RPC Error"

\* C30: checkCommitment returns true iff some non-coinbase input has a witness
\* element that decodes as a script with the commitment, spends a taproot
\* output, and current block - previous block + 1 >= 6; it returns false when
\* no input qualifies; only an RPC failure makes it raise an error
C30_CommitmentValidity == Committed => CommitmentDecides(commitArgs)

\* the tapscript position of the witness stack of the input exists, and the
\* stack is there
HasTapscript(input) ==
    \/ input.coinbase
    \/ /\ input.txinwitness # NoWitness
       /\ LET len == Len(input.txinwitness)
          IN  len >= (IF len >= 2 /\ input.txinwitness[len] = "annex" THEN 3 ELSE 2)
              \/ ~ShowsCommitment(input)

\* the same, for the calls all of whose inputs have a witness stack that
\* reaches the tapscript position
CommitmentValidityWithTapscript ==
    (Committed /\ \A k \in 1..Len(commitArgs.vin) : HasTapscript(commitArgs.vin[k]))
        => CommitmentDecides(commitArgs)

\* checkCommitment returned true on the second input
SecondInputCommits ==
    /\ commitRet = "true"
    /\ Len(commitArgs.vin) = 2
    /\ ~Qualifies(commitArgs.vin[1], commitArgs.block)

\* an RPC failure was raised
RpcErrorSeen == commitRet = "RPC Error"

(* ------------------------- commitment required ------------------------- *)

\* the commitment check succeeds for the transaction in hand
HasCommitment == checkCommitment(commitArgs.vin, commitArgs.block, 1) = "true"

\* C29: processEtching creates the dune of an etching that supplies a name
\* only if the commitment check succeeds for the transaction: without an input
\* that carries a qualifying commitment it creates nothing and leaves U as it
\* was
C29_CommitmentRequired ==
    [][(pc = "etch" /\ pc' = "mint" /\ ~HasCommitment)
          => /\ Dune' = Dune
             /\ UnallocatedDunes' = UnallocatedDunes]_vars

\* with a commitment the named dune is created
CommittedEtchSeen ==
    /\ pc = "mint"
    /\ HasCommitment
    /\ Tx.hash \in DOMAIN Dune
    /\ Dune[Tx.hash].name = "AAA"

(* ----------------------- etching mode validation ----------------------- *)

\* the claimed rule: amount 0 without a price, or flex with any cap
ClaimedModeReject(etching) ==
    /\ etching.terms.amount = 0
    /\ \/ etching.terms.price_amount = Null
       \/ etching.terms.cap # Null

\* the etching is flex: amount 0 and a price
ClaimedFlex(etching) ==
    etching.terms.amount = 0 /\ etching.terms.price_amount # Null

\* processEtching takes the etching, whose id and name are free
ModeStep(etching) ==
    /\ pc = "etch"
    /\ Etch(etching)
    /\ Tx.hash \notin DOMAIN Dune
    /\ \A d \in DOMAIN Dune : Dune[d].name # etching.dune

\* what the claimed rule makes of the etching
ModeDecides(etching) ==
    IF ClaimedModeReject(etching)
    THEN Dune' = Dune /\ UnallocatedDunes' = UnallocatedDunes
    ELSE /\ Tx.hash \in DOMAIN Dune'
         /\ ClaimedFlex(etching) =>
               /\ Dune'[Tx.hash].mint_amount = 0
               /\ Dune'[Tx.hash].price_amount = etching.terms.price_amount
               /\ Dune'[Tx.hash].price_pay_to = etching.terms.price_pay_to
               /\ ~Dune'[Tx.hash].unmintable

\* C31: processEtching rejects an etching with amount 0 and no price, and a
\* flex etching (amount 0, price set) with a cap, any non-null cap; it accepts
\* a flex etching without cap and stores its price_amount and price_pay_to
C31_ModeValidation ==
    [][\A etching \in ModeEtchings : ModeStep(etching) => ModeDecides(etching)]_vars

\* the same, but for a cap of 0
ModeValidationButCapZero ==
    [][\A etching \in ModeEtchings :
          (ModeStep(etching) /\ etching.terms.cap # 0) => ModeDecides(etching)]_vars

\* a flex dune without cap was etched
FlexEtchSeen ==
    /\ pc = "mint"
    /\ Tx.hash \in DOMAIN Dune
    /\ Dune[Tx.hash].mint_amount = 0
    /\ Dune[Tx.hash].price_amount = PriceSats
    /\ Dune[Tx.hash].mint_cap = Null

\* an etching was rejected for its mode
ModeRejectedSeen == pc = "mint" /\ hist.rejected /\ ~hist.nameTaken

(* ----------------------------- short-circuit --------------------------- *)

\* processDunestone starts on a transaction that resolves no input utxo, whose
\* dunestone carries no etching, no mint and no edicts, and that is not the
\* coinbase of GENESIS_BLOCK
NothingToDo ==
    /\ pc = "idle"
    /\ nTx' = nTx + 1
    /\ Len(inputUtxos') = 0
    /\ dunestone'.etching = NoEtching
    /\ dunestone'.mint = NoMint
    /\ dunestone'.edicts = << >>
    /\ ~(Tx'.coinbase /\ Tx'.block = GENESIS_BLOCK)

heldByOpReturn(d, S) ==
    SumOver([i \in 1..Len(pendingUtxos) |->
                 IF pendingUtxos[i].address_id = OP_RETURN
                 THEN Get(pendingUtxos[i].dune_balances, d) ELSE 0],
            S)

\* the total of the BURN events finalizeTransfers emits for dune d
burnEventsOf(d) ==
    LET emitted == SubSeq(Event', Len(Event) + 1, Len(Event'))
    IN  SumOver([k \in 1..Len(emitted) |->
                    IF emitted[k].type = 3 /\ emitted[k].dune_id = d
                    THEN emitted[k].amount ELSE 0],
                1..Len(emitted))

\* finalizeTransfers on a transaction that is no cenotaph
FinalizeStep == pc = "finalize" /\ pc' = "idle" /\ ~Tx.cenotaph

\* C33: in a non-cenotaph transaction every unit of a dune D that the edicts
\* or the pointer sweep allocated to an OP_RETURN output, whatever its
\* position and however many OP_RETURN outputs there are, is added to
\* D.burnt_amount, and the BURN events of the transaction for D total the
\* increase of D.burnt_amount
C33_OpReturnBurns ==
    [][FinalizeStep =>
          \A d \in DOMAIN Dune :
              /\ Dune'[d].burnt_amount =
                     Dune[d].burnt_amount + heldByOpReturn(d, 1..Len(pendingUtxos))
              /\ burnEventsOf(d) = Dune'[d].burnt_amount - Dune[d].burnt_amount]_vars

\* what holds: the first OP_RETURN output alone is added to burnt_amount,
\* while the BURN events total what all the OP_RETURN outputs hold
FirstOpReturnBurns ==
    [][FinalizeStep =>
          \A d \in DOMAIN Dune :
              /\ Dune'[d].burnt_amount =
                     Dune[d].burnt_amount +
                     heldByOpReturn(d, {opReturnOutput(pendingUtxos)} \ {0})
              /\ burnEventsOf(d) = heldByOpReturn(d, 1..Len(pendingUtxos))]_vars

\* a finalized transaction whose second OP_RETURN output holds units
SecondOpReturnHolds ==
    /\ Done /\ ~Tx.cenotaph
    /\ \E i \in 2..Len(pendingUtxos) :
          /\ pendingUtxos[i].address_id = OP_RETURN
          /\ pendingUtxos[1].address_id = OP_RETURN
          /\ SumMap(pendingUtxos[i].dune_balances) > 0

(* ------------------------ missing pointer output ----------------------- *)

\* processEdicts ends, by its return or by an error, on a transaction that is
\* no cenotaph
EdictsStep == pc = "edicts" /\ ~Tx.cenotaph /\ pc' # "edicts"

\* the transaction has neither a non-OP_RETURN nor an OP_RETURN output
NoOutputAtAll ==
    /\ nonOpReturnOutputs(pendingUtxos) = << >>
    /\ opReturnOutput(pendingUtxos) = 0

NoOutputThrows ==
    [][/\ (EdictsStep /\ NoOutputAtAll) => pc' = "aborted"
       /\ pc # "aborted"]_vars

\* processEdicts threw on a transaction that has an output
ThrewWithOutput ==
    pc = "aborted" /\ ~Tx.cenotaph /\ ~NoOutputAtAll /\ hist.mintCase # "throws"

\* processEdicts threw for want of an output
ThrewWithoutOutput == pc = "aborted" /\ ~Tx.cenotaph /\ NoOutputAtAll

(* ------------------------- prefetch concurrency ------------------------ *)

\* the block fetches in flight: the chunks the active __fillCache runs await
inFlight ==
    SumOver([i \in 1..Len(fills) |-> fills[i].chunkSize], 1..Len(fills))

\* C35: at any time at most one __fillCache run is active in a blockManager,
\* whatever the interleaving of getBlock calls and RPC completions, and so at
\* most GET_BLOCK_CHUNK_SIZE block fetches are in flight
C35_OneFillAtATime ==
    /\ Len(fills) <= 1
    /\ Len(fills) = 1 => cacheFillProcessing
    /\ inFlight <= GET_BLOCK_CHUNK_SIZE

\* getBlock was called while a run awaited its chunk and started no second
\* one: the call polls with an empty cache, and the run that is active did
\* not start at the height the call asks for
C35_Witness ==
    /\ waiting = "polling"
    /\ cachedBlocks = EmptyMap
    /\ Len(fills) = 1
    /\ fills[1].currentBlock # requested
    /\ inFlight = MaxChunkSize

(* ------------------ monotonic counters, spend marking ------------------ *)

\* the keys of the input utxos of the transaction
inputKeys == {inputUtxos[k].utxo_index : k \in 1..Len(inputUtxos)}

\* no dune is removed and no counter of a dune goes down
CountersGrow ==
    \A d \in DOMAIN Dune :
        /\ d \in DOMAIN Dune'
        /\ Dune'[d].mints >= Dune[d].mints
        /\ Dune'[d].burnt_amount >= Dune[d].burnt_amount

\* finalizeTransfers marks every input utxo spent by this transaction and
\* leaves every other attribute and every other Utxo as they are; the other
\* steps change no existing Utxo
SpendMarking ==
    \A k \in DOMAIN Utxo :
        /\ k \in DOMAIN Utxo'
        /\ Utxo'[k] = IF pc = "finalize" /\ k \in inputKeys
                      THEN [Utxo[k] EXCEPT !.block_spent = Tx.block,
                                           !.transaction_spent_id = Tx.hash]
                      ELSE Utxo[k]

\* the Utxo_balance rows stay as they were created
BalanceRowsKept ==
    \A k \in DOMAIN Utxo_balance :
        k \in DOMAIN Utxo_balance' /\ Utxo_balance'[k] = Utxo_balance[k]

\* C36: over any sequence of transactions a dune's mints and burnt_amount
\* never decrease; finalizeTransfers sets block_spent and transaction_spent_id
\* on every input utxo of the transaction and changes no other attribute of an
\* existing Utxo and no Utxo that is not an input; existing Utxo_balance rows
\* are never modified
C36_MonotonicAndSpent ==
    [][CountersGrow /\ SpendMarking /\ BalanceRowsKept]_vars

\* a dune was burnt twice and minted, and the transaction that is finalized
\* has spent an input that held a balance while another Utxo stays unspent
C36_Witness ==
    /\ Done
    /\ \E d \in DOMAIN Dune : Dune[d].burnt_amount > 0 /\ Dune[d].mints > 0
    /\ \E k \in inputKeys :
          /\ Utxo[k].transaction_spent_id = Tx.hash
          /\ \E d \in DOMAIN Dune : <<k, d>> \in DOMAIN Utxo_balance
    /\ \E k \in DOMAIN Utxo : Utxo[k].block_spent = Null

(* ---------------------- cenotaphs carry nothing else ------------------- *)

\* what decipher returned as a cenotaph has no field beside cenotaph
CenotaphIsBare ==
    dunestone.cenotaph =>
        /\ dunestone.keys = {}
        /\ dunestone.etching = NoEtching
        /\ dunestone.mint = NoMint
        /\ dunestone.edicts = << >>
        /\ dunestone.pointer = NoPointer

\* the ETCH and MINT events recorded so far
etchAndMintEvents == SelectSeq(Event, LAMBDA e : e.type \in {0, 1})

heightsInFlight ==
    UNION {fills[i].currentBlock..(fills[i].currentBlock + fills[i].chunkSize - 1) :
              i \in 1..Len(fills)}

\* C38: with an in-order consumer cachedBlocks holds only heights that have
\* not yet been delivered, and each height is fetched from RPC at most once:
\* no height is asked for that was delivered or that the cache holds; in
\* particular a refill started right after the cache was drained does not
\* fetch the height that was just delivered
C38_NoStaleNoDuplicate ==
    /\ \A h \in DOMAIN cachedBlocks : h >= requested
    /\ \A h \in heightsInFlight : h >= requested /\ h \notin DOMAIN cachedBlocks

\* what holds: the consumer gets each height once and in order, whatever
\* the cache holds beside
DeliveredInOrder ==
    /\ requested = GENESIS_BLOCK + Len(delivered)
    /\ \A i \in 1..Len(delivered) : delivered[i] = GENESIS_BLOCK + i - 1

\* a refill started by the call that drained the cache fetches the height
\* that call has just delivered
RefetchOfDelivered ==
    /\ cachedBlocks = EmptyMap
    /\ Len(fills) = 1
    /\ fills[1].currentBlock = requested - 1

\* the cache holds a height that was delivered
StaleCached == \E h \in DOMAIN cachedBlocks : h < requested

(* ------------------------- refill after a failure ---------------------- *)

\* C39: cacheFillProcessing is true only while a __fillCache run is active;
\* after a run ends, also when one of its RPC fetches failed, the flag is
\* false again, so that a later getBlock call can start a new refill and the
\* pending calls are not blocked forever
C39_FlagFollowsRun == cacheFillProcessing => Len(fills) > 0

\* the flag is still set after the run has ended, and the pending call polls
\* for a block that no run will fetch
FlagStuck ==
    /\ cacheFillProcessing
    /\ fills = << >>
    /\ waiting = "polling"
    /\ requested \notin DOMAIN cachedBlocks

(* --------------------------- MINT event amount ------------------------- *)

\* processMint has minted: the step from "mint" that recorded the case
MintedStep == pc = "mint" /\ pc' = "edicts" /\ hist'.mintCase = "minted"

\* the MINT event the step created
mintEvent == Event'[Len(Event')]

\* C40: every MINT event created by processMint records as its amount the
\* amount that the mint added to U, for fixed-mode and flex-mode dunes alike
C40_MintEventAmount ==
    [][MintedStep =>
          /\ Len(Event') = Len(Event) + 1
          /\ mintEvent.type = 1
          /\ mintEvent.dune_id = hist'.mint
          /\ mintEvent.amount = Get(UnallocatedDunes', hist'.mint)
                                    - Get(UnallocatedDunes, hist'.mint)]_vars

\* what holds: the event records the mint_amount of the dune, which is what
\* U receives when the dune is in fixed mode
MintEventAmountIsMintAmount ==
    [][MintedStep =>
          /\ Len(Event') = Len(Event) + 1
          /\ mintEvent.type = 1
          /\ mintEvent.dune_id = hist'.mint
          /\ mintEvent.amount = Dune[hist'.mint].mint_amount
          /\ Dune[hist'.mint].mint_amount > 0 =>
                mintEvent.amount = Get(UnallocatedDunes', hist'.mint)
                                       - Get(UnallocatedDunes, hist'.mint)]_vars

\* a flex mint whose event records no unit while U received one
FlexMintEventZero ==
    /\ pc = "edicts"
    /\ hist.mintCase = "minted"
    /\ hist.minted > 0
    /\ Event[Len(Event)].type = 1
    /\ Event[Len(Event)].amount = 0

====
